---- MODULE Spec2Model ----
(***************************************************************************)
(* SesomNod engine: the result grader (auto_result.determine_result), the  *)
(* bankroll ledger (bankroll.py) and the handlers of main.py that read and *)
(* write the dagens_kamp table and the ledger.                             *)
(*                                                                         *)
(* Text is a sequence of one-character strings.  Money is an integer       *)
(* number of hundredths (NUMERIC(12,2)); decimal odds are an integer       *)
(* number of hundredths (the analyzer rounds best_odds to 2 places).       *)
(* Time is counted in half hours.                                          *)
(***************************************************************************)
EXTENDS Integers, Sequences, FiniteSets, TLC

(***************************************************************************)
(* Python str operations used by determine_result                          *)
(***************************************************************************)

UpperChars == <<"A","B","C","D","E","F","G","H","I","J","K","L","M",
                "N","O","P","Q","R","S","T","U","V","W","X","Y","Z","Å">>

LowerChars == <<"a","b","c","d","e","f","g","h","i","j","k","l","m",
                "n","o","p","q","r","s","t","u","v","w","x","y","z","å">>

DigitChars == <<"0","1","2","3","4","5","6","7","8","9">>

\* str.lower() on one character
LowerChar(c) ==
    IF \E i \in DOMAIN UpperChars : UpperChars[i] = c
    THEN LowerChars[CHOOSE i \in DOMAIN UpperChars : UpperChars[i] = c]
    ELSE c

\* str.lower()
lower(s) == [i \in 1..Len(s) |-> LowerChar(s[i])]

IsSpace(c) == c = " "

RECURSIVE lstrip(_)
lstrip(s) == IF s # <<>> /\ IsSpace(Head(s)) THEN lstrip(Tail(s)) ELSE s

RECURSIVE rstrip(_)
rstrip(s) ==
    IF s # <<>> /\ IsSpace(s[Len(s)]) THEN rstrip(SubSeq(s, 1, Len(s) - 1)) ELSE s

\* str.strip()
strip(s) == rstrip(lstrip(s))

\* sub in s
Contains(sub, s) ==
    \E i \in 1..(Len(s) - Len(sub) + 1) : SubSeq(s, i, i + Len(sub) - 1) = sub

\* s.replace(old, ""): every non-overlapping occurrence, left to right
RECURSIVE RemoveAll(_, _)
RemoveAll(s, old) ==
    IF Len(s) < Len(old) \/ old = <<>> THEN s
    ELSE IF SubSeq(s, 1, Len(old)) = old
         THEN RemoveAll(SubSeq(s, Len(old) + 1, Len(s)), old)
         ELSE <<Head(s)>> \o RemoveAll(Tail(s), old)

\* s.split(c)[-1]: what follows the last c (all of s when c is absent)
AfterLast(s, c) ==
    IF \E i \in 1..Len(s) : s[i] = c
    THEN LET k == CHOOSE i \in 1..Len(s) :
                      s[i] = c /\ \A j \in (i + 1)..Len(s) : s[j] # c
         IN  SubSeq(s, k + 1, Len(s))
    ELSE s

\* s.split(c)[0]: what precedes the first c (all of s when c is absent)
BeforeFirst(s, c) ==
    IF \E i \in 1..Len(s) : s[i] = c
    THEN LET k == CHOOSE i \in 1..Len(s) :
                      s[i] = c /\ \A j \in 1..(i - 1) : s[j] # c
         IN  SubSeq(s, 1, k - 1)
    ELSE s

\* s.split(): the whitespace-separated tokens; FirstToken is s.split()[0]
HasToken(s) == \E i \in 1..Len(s) : ~IsSpace(s[i])

FirstToken(s) == BeforeFirst(lstrip(s), " ")

(***************************************************************************)
(* Python float(str).  The value of a finite literal is kept exactly, as   *)
(* sign * num / den with den a power of ten.                               *)
(***************************************************************************)

RECURSIVE Pow10(_)
Pow10(n) == IF n = 0 THEN 1 ELSE 10 * Pow10(n - 1)

IsDigit(c) == \E i \in DOMAIN DigitChars : DigitChars[i] = c

DigitVal(c) == (CHOOSE i \in DOMAIN DigitChars : DigitChars[i] = c) - 1

\* digitpart ::= digit (["_"] digit)*
IsDigitPart(s) ==
    /\ s # <<>>
    /\ IsDigit(s[1])
    /\ IsDigit(s[Len(s)])
    /\ \A i \in 1..Len(s) : IsDigit(s[i]) \/ s[i] = "_"
    /\ \A i \in 1..(Len(s) - 1) : ~(s[i] = "_" /\ s[i + 1] = "_")

RECURSIVE OnlyDigits(_)
OnlyDigits(s) ==
    IF s = <<>> THEN <<>>
    ELSE IF IsDigit(Head(s)) THEN <<Head(s)>> \o OnlyDigits(Tail(s))
         ELSE OnlyDigits(Tail(s))

RECURSIVE DigitsValue(_)
DigitsValue(d) ==
    IF d = <<>> THEN 0
    ELSE 10 * DigitsValue(SubSeq(d, 1, Len(d) - 1)) + DigitVal(d[Len(d)])

NotANumber == [ok |-> FALSE, kind |-> "err", neg |-> FALSE, num |-> 0, den |-> 1]

Finite(neg, num, den) ==
    [ok |-> TRUE, kind |-> "fin", neg |-> neg, num |-> num, den |-> den]

Special(kind, neg) ==
    [ok |-> TRUE, kind |-> kind, neg |-> neg, num |-> 0, den |-> 1]

\* what follows the first c
AfterFirst(s, c) == SubSeq(s, Len(BeforeFirst(s, c)) + 2, Len(s))

\* number ::= [digitpart] "." digitpart | digitpart ["."]
IsNumber(m) ==
    IF \E i \in 1..Len(m) : m[i] = "."
    THEN LET ip == BeforeFirst(m, ".")
             fp == AfterFirst(m, ".")
         IN  /\ ip = <<>> \/ IsDigitPart(ip)
             /\ fp = <<>> \/ IsDigitPart(fp)
             /\ ~(ip = <<>> /\ fp = <<>>)
    ELSE IsDigitPart(m)

NumberNum(m) == DigitsValue(OnlyDigits(m))

NumberDen(m) ==
    IF \E i \in 1..Len(m) : m[i] = "."
    THEN Pow10(Len(OnlyDigits(AfterFirst(m, "."))))
    ELSE 1

\* exponent ::= "e" [sign] digitpart   (x is what follows the "e")
IsExponent(x) ==
    IF x # <<>> /\ Head(x) \in {"+", "-"} THEN IsDigitPart(Tail(x)) ELSE IsDigitPart(x)

ExponentNeg(x) == x # <<>> /\ Head(x) = "-"

ExponentAbs(x) == DigitsValue(OnlyDigits(x))

\* floatvalue ::= [sign] (number [exponent] | "inf" | "infinity" | "nan"),
\* surrounding whitespace ignored; anything else is a ValueError (ok = FALSE).
\* The caller has lower-cased the text.
ParseFloat(raw) ==
    LET s    == strip(raw)
        sgn  == s # <<>> /\ Head(s) \in {"+", "-"}
        neg  == s # <<>> /\ Head(s) = "-"
        body == IF sgn THEN Tail(s) ELSE s
        hasE == \E i \in 1..Len(body) : body[i] = "e"
        m    == BeforeFirst(body, "e")
        x    == AfterFirst(body, "e")
    IN  IF body \in {<<"i","n","f">>, <<"i","n","f","i","n","i","t","y">>}
        THEN Special("inf", neg)
        ELSE IF body = <<"n","a","n">> THEN Special("nan", neg)
        ELSE IF hasE
             THEN IF IsNumber(m) /\ IsExponent(x)
                  THEN IF ExponentNeg(x)
                       THEN Finite(neg, NumberNum(m), NumberDen(m) * Pow10(ExponentAbs(x)))
                       ELSE Finite(neg, NumberNum(m) * Pow10(ExponentAbs(x)), NumberDen(m))
                  ELSE NotANumber
             ELSE IF IsNumber(m) THEN Finite(neg, NumberNum(m), NumberDen(m))
                  ELSE NotANumber

\* the float f times f.den, as a signed integer (finite f only)
Signed(f) == IF f.neg THEN 0 - f.num ELSE f.num

\* n > f, n == f, n < f for an integer n and a parsed float f (IEEE: every
\* comparison with nan is false)
IntGt(n, f) ==
    CASE f.kind = "fin" -> n * f.den > Signed(f)
      [] f.kind = "inf" -> f.neg
      [] OTHER -> FALSE

IntEq(n, f) ==
    CASE f.kind = "fin" -> n * f.den = Signed(f)
      [] OTHER -> FALSE

IntLt(n, f) ==
    CASE f.kind = "fin" -> n * f.den < Signed(f)
      [] f.kind = "inf" -> ~f.neg
      [] OTHER -> FALSE

(***************************************************************************)
(* auto_result.determine_result: the rules of the cascade, in order.  A    *)
(* rule's verdict is "W", "L" or "P", "none" when the rule does not        *)
(* decide, or "raise" when an exception would leave the function.          *)
(***************************************************************************)

kw_over     == <<"o","v","e","r">>
kw_under    == <<"u","n","d","e","r">>
kw_btts     == <<"b","t","t","s">>
kw_begge    == <<"b","e","g","g","e"," ","l","a","g"," ","s","c","o","r","e","r">>
kw_both     == <<"b","o","t","h"," ","t","e","a","m","s">>
kw_nei      == <<"n","e","i">>
kw_no       == <<"n","o">>
kw_1x       == <<"1","x">>
kw_x2       == <<"x","2">>
kw_12       == <<"1","2">>
kw_dc_1x    == <<"d","o","u","b","l","e"," ","c","h","a","n","c","e"," ","1","x">>
kw_dc_x2    == <<"d","o","u","b","l","e"," ","c","h","a","n","c","e"," ","x","2">>
kw_dc_12    == <<"d","o","u","b","l","e"," ","c","h","a","n","c","e"," ","1","2">>
kw_handicap == <<"h","a","n","d","i","c","a","p">>
kw_ah       == <<"a","h">>
kw_home     == <<"h","o","m","e">>

Verdicts == {"W", "L", "P"}

\* the text stripped but not lowered
pick_stripped(pick) == strip(pick)

\* pick_lower = pick.lower().strip()
pick_lower(pick) == strip(lower(pick))

\* the ValueError of float() left to propagate
TotalsValueErrorRaised == "raise"

\* except ValueError: pass
TotalsValueError == "none"

\* the exception of the handicap parse left to propagate
HandicapExceptionRaised == "raise"

\* except Exception: pass
HandicapException == "none"

OverRule(pl, total) ==
    IF Contains(kw_over, pl)
    THEN LET line == ParseFloat(strip(RemoveAll(pl, kw_over)))
         IN  IF ~line.ok THEN TotalsValueError
             ELSE IF IntGt(total, line) THEN "W"
             ELSE IF IntEq(total, line) THEN "P"
             ELSE "L"
    ELSE "none"

UnderRule(pl, total) ==
    IF Contains(kw_under, pl)
    THEN LET line == ParseFloat(strip(RemoveAll(pl, kw_under)))
         IN  IF ~line.ok THEN TotalsValueError
             ELSE IF IntLt(total, line) THEN "W"
             ELSE IF IntEq(total, line) THEN "P"
             ELSE "L"
    ELSE "none"

\* the negation recognised in English only
BttsNegatedEnglish(pl) == Contains(kw_no, pl)

\* "nei" in pick_lower or "no" in pick_lower
BttsNegated(pl) == Contains(kw_nei, pl) \/ Contains(kw_no, pl)

BttsRule(pl, home_score, away_score) ==
    IF Contains(kw_btts, pl) \/ Contains(kw_begge, pl) \/ Contains(kw_both, pl)
    THEN IF BttsNegated(pl)
         THEN IF home_score = 0 \/ away_score = 0 THEN "W" ELSE "L"
         ELSE IF home_score > 0 /\ away_score > 0 THEN "W" ELSE "L"
    ELSE "none"

\* a level score counted for the home side
actual_level_home(home_score, away_score) ==
    IF home_score >= away_score THEN "1" ELSE "2"

actual(home_score, away_score) ==
    IF home_score > away_score THEN "1"
    ELSE IF home_score = away_score THEN "X"
    ELSE "2"

X12Rule(pl, home_score, away_score) ==
    LET act == actual(home_score, away_score)
        has1 == Contains(<<"1">>, pl)
        hasx == Contains(<<"x">>, pl)
        has2 == Contains(<<"2">>, pl)
    IN  IF has1 /\ ~hasx /\ ~has2 THEN (IF act = "1" THEN "W" ELSE "L")
        ELSE IF hasx /\ ~has1 /\ ~has2 THEN (IF act = "X" THEN "W" ELSE "L")
        ELSE IF has2 /\ ~hasx /\ ~has1 THEN (IF act = "2" THEN "W" ELSE "L")
        ELSE IF Contains(kw_1x, pl) \/ Contains(kw_dc_1x, pl)
             THEN (IF act \in {"1", "X"} THEN "W" ELSE "L")
        ELSE IF Contains(kw_x2, pl) \/ Contains(kw_dc_x2, pl)
             THEN (IF act \in {"X", "2"} THEN "W" ELSE "L")
        ELSE IF Contains(kw_12, pl) \/ Contains(kw_dc_12, pl)
             THEN (IF act \in {"1", "2"} THEN "W" ELSE "L")
        ELSE "none"

\* adj_home = home_score - handicap is compared with away_score:
\* adj_home > away_score  iff  home_score - away_score > handicap
HandicapRule(pl, home_score, away_score) ==
    IF Contains(kw_handicap, pl) \/ Contains(kw_ah, pl)
    THEN IF Contains(kw_home, pl) \/ Contains(<<"1">>, pl)
         THEN LET part == strip(BeforeFirst(AfterLast(pl, "-"), "+"))
              IN  IF ~HasToken(part) THEN HandicapException
                  ELSE LET handicap == ParseFloat(FirstToken(part))
                       IN  IF ~handicap.ok THEN HandicapException
                           ELSE IF IntGt(home_score - away_score, handicap) THEN "W"
                           ELSE IF IntEq(home_score - away_score, handicap) THEN "P"
                           ELSE "L"
         ELSE "none"
    ELSE "none"

\* an undetermined pick counted as lost
FallbackLoss == "L"

\* return "P"  # Push if we can't determine
FallbackRule == "P"

Rules == <<"over", "under", "btts", "x12", "handicap", "fallback">>

RuleVerdict(rule, pick, home_score, away_score) ==
    LET pl == pick_lower(pick)
    IN  CASE rule = "over"     -> OverRule(pl, home_score + away_score)
          [] rule = "under"    -> UnderRule(pl, home_score + away_score)
          [] rule = "btts"     -> BttsRule(pl, home_score, away_score)
          [] rule = "x12"      -> X12Rule(pl, home_score, away_score)
          [] rule = "handicap" -> HandicapRule(pl, home_score, away_score)
          [] OTHER             -> FallbackRule

RECURSIVE Cascade(_, _, _, _)
Cascade(k, pick, home_score, away_score) ==
    LET v == RuleVerdict(Rules[k], pick, home_score, away_score)
    IN  IF v = "none" /\ k < Len(Rules)
        THEN Cascade(k + 1, pick, home_score, away_score)
        ELSE v

\* the value determine_result returns ("raise" when it raises)
determine_result(pick, home_score, away_score) ==
    Cascade(1, pick, home_score, away_score)

(***************************************************************************)
(* The pick texts the grader is run on.  TotalsCases are the texts made of *)
(* a totals keyword and a numeric line, each with the line it states       *)
(* (num / den); OtherTexts are the remaining texts.                        *)
(***************************************************************************)

TotalsCases == {
    \* "Over 2.5"
    [text |-> <<"O","v","e","r"," ","2",".","5">>,
     dir |-> "over", num |-> 25, den |-> 10],
    \* "OVER 3"
    [text |-> <<"O","V","E","R"," ","3">>,
     dir |-> "over", num |-> 3, den |-> 1],
    \* "over 2"
    [text |-> <<"o","v","e","r"," ","2">>,
     dir |-> "over", num |-> 2, den |-> 1],
    \* "oVeR 1.5"
    [text |-> <<"o","V","e","R"," ","1",".","5">>,
     dir |-> "over", num |-> 15, den |-> 10],
    \* "Over 3.5"
    [text |-> <<"O","v","e","r"," ","3",".","5">>,
     dir |-> "over", num |-> 35, den |-> 10],
    \* "2.5 over"
    [text |-> <<"2",".","5"," ","o","v","e","r">>,
     dir |-> "over", num |-> 25, den |-> 10],
    \* "Over2.5"
    [text |-> <<"O","v","e","r","2",".","5">>,
     dir |-> "over", num |-> 25, den |-> 10],
    \* "Over +2.5"
    [text |-> <<"O","v","e","r"," ","+","2",".","5">>,
     dir |-> "over", num |-> 25, den |-> 10],
    \* "Over 2.25"
    [text |-> <<"O","v","e","r"," ","2",".","2","5">>,
     dir |-> "over", num |-> 225, den |-> 100],
    \* "Over 0.5"
    [text |-> <<"O","v","e","r"," ","0",".","5">>,
     dir |-> "over", num |-> 5, den |-> 10],
    \* "Over 4"
    [text |-> <<"O","v","e","r"," ","4">>,
     dir |-> "over", num |-> 4, den |-> 1],
    \* "Under 2.5"
    [text |-> <<"U","n","d","e","r"," ","2",".","5">>,
     dir |-> "under", num |-> 25, den |-> 10],
    \* "UNDER 3"
    [text |-> <<"U","N","D","E","R"," ","3">>,
     dir |-> "under", num |-> 3, den |-> 1],
    \* "under 1.5"
    [text |-> <<"u","n","d","e","r"," ","1",".","5">>,
     dir |-> "under", num |-> 15, den |-> 10],
    \* "Under 2"
    [text |-> <<"U","n","d","e","r"," ","2">>,
     dir |-> "under", num |-> 2, den |-> 1],
    \* "UnDeR 3.5"
    [text |-> <<"U","n","D","e","R"," ","3",".","5">>,
     dir |-> "under", num |-> 35, den |-> 10],
    \* "3.5 Under"
    [text |-> <<"3",".","5"," ","U","n","d","e","r">>,
     dir |-> "under", num |-> 35, den |-> 10],
    \* "Under 0.5"
    [text |-> <<"U","n","d","e","r"," ","0",".","5">>,
     dir |-> "under", num |-> 5, den |-> 10],
    \* "Under 2.75"
    [text |-> <<"U","n","d","e","r"," ","2",".","7","5">>,
     dir |-> "under", num |-> 275, den |-> 100]
  }

\* "Over 2.5 mål"
txt_over_2_5_mal == <<"O","v","e","r"," ","2",".","5"," ","m","å","l">>

\* "Over"
txt_over == <<"O","v","e","r">>

\* "Over/Under"
txt_over_under == <<"O","v","e","r","/","U","n","d","e","r">>

\* "Under x"
txt_under_x == <<"U","n","d","e","r"," ","x">>

\* "over two"
txt_over_two == <<"o","v","e","r"," ","t","w","o">>

\* "Under 2.5 goals"
txt_under_2_5_goals == <<"U","n","d","e","r"," ","2",".","5"," ","g","o","a","l","s">>

\* "BTTS Ja"
txt_btts_ja == <<"B","T","T","S"," ","J","a">>

\* "BTTS No"
txt_btts_no == <<"B","T","T","S"," ","N","o">>

\* "BTTS Nei"
txt_btts_nei == <<"B","T","T","S"," ","N","e","i">>

\* "Begge lag scorer"
txt_begge_lag_scorer == <<"B","e","g","g","e"," ","l","a","g"," ","s","c","o","r","e","r">>

\* "Begge lag scorer - nei"
txt_begge_lag_scorer_nei == <<"B","e","g","g","e"," ","l","a","g"," ","s","c","o","r","e","r"," ","-"," ","n","e","i">>

\* "Both teams to score"
txt_both_teams_to_score == <<"B","o","t","h"," ","t","e","a","m","s"," ","t","o"," ","s","c","o","r","e">>

\* "Both teams to score - No"
txt_both_teams_to_score_no == <<"B","o","t","h"," ","t","e","a","m","s"," ","t","o"," ","s","c","o","r","e"," ","-"," ","N","o">>

\* "BTTS 1"
txt_btts_1 == <<"B","T","T","S"," ","1">>

\* "BTTS X2 no"
txt_btts_x2_no == <<"B","T","T","S"," ","X","2"," ","n","o">>

\* "BTTS 12"
txt_btts_12 == <<"B","T","T","S"," ","1","2">>

\* "BTTS & Over 2.5"
txt_btts_over_2_5 == <<"B","T","T","S"," ","&"," ","O","v","e","r"," ","2",".","5">>

\* "btts under"
txt_btts_under == <<"b","t","t","s"," ","u","n","d","e","r">>

\* "BTTS AH Home -1"
txt_btts_ah_home_1 == <<"B","T","T","S"," ","A","H"," ","H","o","m","e"," ","-","1">>

\* "Both Teams X"
\* "BTTS Norwich"
txt_btts_norwich == <<"B","T","T","S"," ","N","o","r","w","i","c","h">>

\* "Both Teams X"
txt_both_teams_x == <<"B","o","t","h"," ","T","e","a","m","s"," ","X">>

\* "1"
txt_1 == <<"1">>

\* "X"
txt_x == <<"X">>

\* "2"
txt_2 == <<"2">>

\* "1X"
txt_1x == <<"1","X">>

\* "X2"
txt_x2 == <<"X","2">>

\* "12"
txt_12 == <<"1","2">>

\* "1X2"
txt_1x2 == <<"1","X","2">>

\* "Double Chance 1X"
txt_double_chance_1x == <<"D","o","u","b","l","e"," ","C","h","a","n","c","e"," ","1","X">>

\* "Uavgjort"
txt_uavgjort == <<"U","a","v","g","j","o","r","t">>

\* "Arsenal vinner"
txt_arsenal_vinner == <<"A","r","s","e","n","a","l"," ","v","i","n","n","e","r">>

\* "Auxerre vinner"
txt_auxerre_vinner == <<"A","u","x","e","r","r","e"," ","v","i","n","n","e","r">>

\* "1. FC Heidenheim vinner"
txt_1_fc_heidenheim_vinner == <<"1","."," ","F","C"," ","H","e","i","d","e","n","h","e","i","m"," ","v","i","n","n","e","r">>

\* "Mainz 05 vinner"
txt_mainz_05_vinner == <<"M","a","i","n","z"," ","0","5"," ","v","i","n","n","e","r">>

\* "AH Home -1"
txt_ah_home_1 == <<"A","H"," ","H","o","m","e"," ","-","1">>

\* "Home -0.5 AH"
txt_home_0_5_ah == <<"H","o","m","e"," ","-","0",".","5"," ","A","H">>

\* "Home -0 AH"
txt_home_0_ah == <<"H","o","m","e"," ","-","0"," ","A","H">>

\* "ah home"
txt_ah_home == <<"a","h"," ","h","o","m","e">>

\* "Handicap home -"
txt_handicap_home == <<"H","a","n","d","i","c","a","p"," ","h","o","m","e"," ","-">>

\* "Home AH - +"
txt_home_ah == <<"H","o","m","e"," ","A","H"," ","-"," ","+">>

\* "Asian Handicap Away +1.5"
txt_asian_handicap_away_1_5 == <<"A","s","i","a","n"," ","H","a","n","d","i","c","a","p"," ","A","w","a","y"," ","+","1",".","5">>

\* "Home handicap -3"
txt_home_handicap_3 == <<"H","o","m","e"," ","h","a","n","d","i","c","a","p"," ","-","3">>

\* ""
txt_empty == <<>>

\* "  1  "
txt_1_b == <<" "," ","1"," "," ">>

\* "Draw"
txt_draw == <<"D","r","a","w">>

OtherTexts == {
    txt_over_2_5_mal, txt_over, txt_over_under, txt_under_x, txt_over_two,
    txt_under_2_5_goals, txt_btts_ja, txt_btts_no, txt_btts_nei,
    txt_begge_lag_scorer, txt_begge_lag_scorer_nei,
    txt_both_teams_to_score, txt_both_teams_to_score_no, txt_btts_1,
    txt_btts_x2_no, txt_btts_12, txt_btts_over_2_5, txt_btts_under,
    txt_btts_ah_home_1, txt_btts_norwich, txt_both_teams_x, txt_1, txt_x, txt_2, txt_1x,
    txt_x2, txt_12, txt_1x2, txt_double_chance_1x, txt_uavgjort,
    txt_arsenal_vinner, txt_auxerre_vinner, txt_1_fc_heidenheim_vinner,
    txt_mainz_05_vinner, txt_ah_home_1, txt_home_0_5_ah, txt_home_0_ah,
    txt_ah_home, txt_handicap_home, txt_home_ah,
    txt_asian_handicap_away_1_5, txt_home_handicap_3, txt_empty, txt_1_b,
    txt_draw
  }

PickTexts == {c.text : c \in TotalsCases} \cup OtherTexts


\* the largest number of goals one side scores in the scores tried
MaxGoals == 3

Scores == 0..MaxGoals

(***************************************************************************)
(* bankroll.py: amounts of the ledger transitions                          *)
(***************************************************************************)

\* BANKROLL_START = 100.0, in hundredths
BANKROLL_START == 10000

\* n / 10000 cut to hundredths, with no rounding
Truncated2(n) == {n \div 100}

\* round(x, 2) of the double x = current * odds, where n = 10000 * x exactly:
\* the hundredths nearest to x.  Where the exact product lies half-way between
\* two hundredths the double is in general not that value (0.005 has no finite
\* binary expansion) and lies on one side or the other, depending on the
\* operands: both outcomes are kept.  (499.5 * 2.05 rounds to 1023.97, 100.5 * 3.33 to 334.67.)
Round2(n) ==
    LET q == n \div 100
        r == n % 100
    IN  IF r > 50 THEN {q + 1}
        ELSE IF r < 50 THEN {q}
        ELSE {q, q + 1}

\* new_amount = round(current * odds, 2)
new_amount(current, odds) == Round2(current * odds)

\* profit = round(new_amount - current, 2): both are hundredths, so is the difference
profit(after, current) == after - current

\* a stake of the start bankroll taken off the balance
StakeDeducted(current) == current - BANKROLL_START

\* apply_loss inserts {current}, 0
LossAmount(current) == current

\* apply_push inserts {current}, 0
PushAmount(current) == current

(***************************************************************************)
(* dagens_kamp.py: the arithmetic of the analysis.  Odds are hundredths,   *)
(* probabilities ten-thousandths (round(p, 4)), EV, vig and the selection  *)
(* score hundredths (round(x, 2)), hours_to_kickoff half hours.            *)
(***************************************************************************)

\* <<q, r>>: quotient and remainder of 10^k * n by den (den > 0), one decimal
\* digit at a time, so that no intermediate value leaves 32 bits
RECURSIVE Scaled(_, _, _)
Scaled(n, den, k) ==
    IF k = 0 THEN <<n \div den, n % den>>
    ELSE LET s == Scaled(n, den, k - 1)
         IN  <<10 * s[1] + (10 * s[2]) \div den, (10 * s[2]) % den>>

\* round(x, nd) of the double x whose exact value is n / den, counted in units
\* of 10^-k: the nearest unit, and both neighbours where the exact value lies
\* half-way between them (the double then lies on either side, see Round2)
Round(n, den, k) ==
    LET s == Scaled(n, den, k)
    IN  IF 2 * s[2] < den THEN {s[1]}
        ELSE IF 2 * s[2] > den THEN {s[1] + 1}
        ELSE {s[1], s[1] + 1}

\* remove_vig raises ZeroDivisionError at raw_home = 1 / home_odds (and so on)
remove_vig_raises(home_odds, draw_odds, away_odds) ==
    0 \in {home_odds, draw_odds, away_odds}

\* remove_vig: raw_x = 1 / x_odds, total = their sum, each probability
\* round(raw_x / total, 4), vig = round((total - 1) * 100, 2).  Over the common
\* denominator home_odds * draw_odds * away_odds the raw values are the
\* products of the other two odds.
remove_vig(home_odds, draw_odds, away_odds) ==
    LET raw_home == draw_odds * away_odds
        raw_draw == home_odds * away_odds
        raw_away == home_odds * draw_odds
        total == raw_home + raw_draw + raw_away
        denominator == home_odds * draw_odds * away_odds
    IN  {[home |-> h, draw |-> d, away |-> a, vig |-> v] :
            h \in Round(raw_home, total, 4),
            d \in Round(raw_draw, total, 4),
            a \in Round(raw_away, total, 4),
            v \in Round(100 * total - denominator, denominator, 4)}

Min2(a, b) == IF a < b THEN a ELSE b

Max2(a, b) == IF a > b THEN a ELSE b

\* the estimate of implied_over25 without its clamp
Over25Unclamped(home_prob, draw_prob, away_prob) ==
    Round(350000 + (home_prob + away_prob) * 42 - draw_prob * 15, 100, 0)

\* implied_over25: base = 0.35 + decisive * 0.42 - draw_factor * 0.15 (here in
\* millionths), round(min(0.88, max(0.28, base)), 4)
implied_over25(home_prob, draw_prob, away_prob) ==
    LET decisive == home_prob + away_prob
        draw_factor == draw_prob
        base == 350000 + decisive * 42 - draw_factor * 15
    IN  Round(Min2(880000, Max2(280000, base)), 100, 0)

\* implied_btts: competitiveness = 1 - abs(home_prob - away_prob), draw_bonus =
\* draw_prob * 0.3, base = 0.30 + competitiveness * 0.35 + draw_bonus (here in
\* millionths), round(min(0.82, max(0.25, base)), 4)
implied_btts(home_prob, draw_prob, away_prob) ==
    LET competitiveness == 10000 - (IF home_prob >= away_prob
                                    THEN home_prob - away_prob
                                    ELSE away_prob - home_prob)
        draw_bonus == draw_prob * 30
        base == 300000 + competitiveness * 35 + draw_bonus
    IN  Round(Min2(820000, Max2(250000, base)), 100, 0)

\* calculate_ev: round((true_prob * offered_odds - 1) * 100, 2)
calculate_ev(true_prob, offered_odds) ==
    Round(true_prob * offered_odds - 1000000, 100, 0)

\* calculate_confidence_score, the running score in units of 1/500
\* (market_consensus * 20 is market_consensus / 500 in ten-thousandths)
calculate_confidence_score(market_consensus, ev, vig, num_bookmakers, hours_to_kickoff) ==
    LET score == 50 * 500
                 + Min2(15 * 500, market_consensus)
                 + (IF ev > 500 THEN 15 * 500
                    ELSE IF ev > 200 THEN 8 * 500
                    ELSE IF ev > 0 THEN 3 * 500 ELSE 0)
                 + (IF vig < 400 THEN 10 * 500
                    ELSE IF vig < 600 THEN 5 * 500 ELSE 0)
                 + Min2(10 * 500, num_bookmakers * 750)
                 + (IF 24 <= hours_to_kickoff /\ hours_to_kickoff <= 96
                    THEN 5 * 500 ELSE 0)
    IN  Min2(99, Max2(45, score \div 500))

\* the EV term of a score that counts 2 per point
ScoreEvDoubled(match_data) ==
    Max2(0, match_data.best_ev) * 2
    + match_data.confidence * 50
    + match_data.num_bookmakers * 200
    + (IF 12 <= match_data.hours_to_kickoff /\ match_data.hours_to_kickoff <= 144
       THEN 2000
       ELSE IF match_data.hours_to_kickoff < 12 THEN -3000 ELSE 0)
    + (IF Max2(match_data.true_probs.home, match_data.true_probs.away) > 5500
       THEN 1000 ELSE 0)

\* score_match_for_selection, in hundredths
score_match_for_selection(match_data) ==
    Max2(0, match_data.best_ev) * 3
    + match_data.confidence * 50
    + match_data.num_bookmakers * 200
    + (IF 12 <= match_data.hours_to_kickoff /\ match_data.hours_to_kickoff <= 144
       THEN 2000
       ELSE IF match_data.hours_to_kickoff < 12 THEN -3000 ELSE 0)
    + (IF Max2(match_data.true_probs.home, match_data.true_probs.away) > 5500
       THEN 1000 ELSE 0)

(***************************************************************************)
(* dagens_kamp.py: analyze_dagens_kamp, the candidate of one match.  A     *)
(* match m of a league's response is                                       *)
(*   [id, home_team, away_team, commence_time |-> [form, at], bookmakers,  *)
(*    h2h, over]                                                           *)
(* with form "iso" (at = the kickoff, in half hours), "bad" (not an ISO    *)
(* date) or "missing" (no such key), bookmakers = len(m["bookmakers"]),    *)
(* h2h the consensus odds <<home, draw, away>> _extract_consensus_odds     *)
(* finds (<<>> when no bookmaker quotes the market) and over the odds      *)
(* _extract_totals_odds finds for Over 2.5 (0 when there are none).        *)
(***************************************************************************)

txt_arsenal == <<"A","r","s","e","n","a","l">>

txt_auxerre == <<"A","u","x","e","r","r","e">>

\* the suffix of the labels f"{m['home_team']} vinner", f"{m['away_team']} vinner"
txt_vinner == <<" ","v","i","n","n","e","r">>

\* best_ev = 0, best_pick = "", best_odds = 0, best_market = ""
NoBest == [best_ev |-> 0, best_pick |-> <<>>, best_odds |-> 0, best_market |-> ""]

\* an outcome replaces the best one when its EV is at least as high
KeepNotWorse(best, ev, label, odds, market) ==
    IF ev >= best.best_ev
    THEN [best_ev |-> ev, best_pick |-> label, best_odds |-> odds, best_market |-> market]
    ELSE best

\* if ev > best_ev: best_ev = ev; best_pick = label; best_odds = odds; best_market = ...
KeepBetter(best, ev, label, odds, market) ==
    IF ev > best.best_ev
    THEN [best_ev |-> ev, best_pick |-> label, best_odds |-> odds, best_market |-> market]
    ELSE best

\* the loop over ("home", ...), ("draw", ...), ("away", ...), evs = the three ev
BestH2h(m, evs) ==
    LET after_home == KeepBetter(NoBest, evs[1], m.home_team \o txt_vinner, m.h2h[1], "1X2")
        after_draw == KeepBetter(after_home, evs[2], txt_uavgjort, m.h2h[2], "1X2")
    IN  KeepBetter(after_draw, evs[3], m.away_team \o txt_vinner, m.h2h[3], "1X2")

\* if totals_odds: ... if over_ev > best_ev: ... "Over 2.5 mål", "Totals"
BestWithTotals(best, m, over_ev) ==
    IF m.over = 0 THEN best
    ELSE KeepBetter(best, over_ev, txt_over_2_5_mal, m.over, "Totals")

\* match_data before its selection_score; `evs` keeps the values ev took in the
\* loop and over_ev (0 where the totals are not checked), which the program
\* drops.  round(best_ev, 2) and round(best_odds, 2) leave hundredths as they
\* are, round(hours_to_kickoff, 1) half hours.
MatchData(league_key, m, hours_to_kickoff, true_probs, over25_prob, evs) ==
    LET best == BestWithTotals(BestH2h(m, evs), m, evs[4])
    IN  [id |-> m.id,
         league_key |-> league_key,
         home_team |-> m.home_team,
         away_team |-> m.away_team,
         commence_time |-> m.commence_time.at,
         hours_to_kickoff |-> hours_to_kickoff,
         home_odds |-> m.h2h[1],
         draw_odds |-> m.h2h[2],
         away_odds |-> m.h2h[3],
         true_probs |-> true_probs,
         over25_prob |-> over25_prob,
         best_ev |-> best.best_ev,
         best_pick |-> best.best_pick,
         best_odds |-> best.best_odds,
         best_market |-> best.best_market,
         confidence |-> calculate_confidence_score(
                            Max2(true_probs.home, true_probs.away), best.best_ev,
                            true_probs.vig, m.bookmakers, hours_to_kickoff),
         num_bookmakers |-> m.bookmakers,
         totals_odds |-> m.over,
         evs |-> evs]

\* match_data["selection_score"] = score_match_for_selection(match_data)
Scored(match_data) ==
    [k \in DOMAIN match_data \cup {"selection_score"} |->
        IF k = "selection_score" THEN score_match_for_selection(match_data)
        ELSE match_data[k]]

\* the values match_data can take for a match past the eligibility checks
Candidates(league_key, m, hours_to_kickoff) ==
    UNION {
        UNION {
            {Scored(MatchData(league_key, m, hours_to_kickoff, true_probs, over25_prob,
                              <<ev_home, ev_draw, ev_away, over_ev>>)) :
                ev_home \in calculate_ev(true_probs.home, m.h2h[1]),
                ev_draw \in calculate_ev(true_probs.draw, m.h2h[2]),
                ev_away \in calculate_ev(true_probs.away, m.h2h[3]),
                over_ev \in IF m.over = 0 THEN {0}
                            ELSE calculate_ev(over25_prob, m.over)} :
            over25_prob \in implied_over25(true_probs.home, true_probs.draw,
                                           true_probs.away)} :
        true_probs \in remove_vig(m.h2h[1], m.h2h[2], m.h2h[3])}

\* for m in matches, from matches[i] on: the values of all_matches when the
\* loop is left, by its end or by an exception (except Exception: continue
\* goes on with the next league).  Read at time t.
RECURSIVE LeagueLoop(_, _, _, _, _)
LeagueLoop(league_key, matches, i, t, acc) ==
    IF i > Len(matches) THEN {acc}
    ELSE LET m == matches[i]
             hours_to_kickoff == m.commence_time.at - t
         IN  IF m.commence_time.form # "iso" THEN {acc}
             ELSE IF ~(12 <= hours_to_kickoff /\ hours_to_kickoff <= 192)
             THEN LeagueLoop(league_key, matches, i + 1, t, acc)
             ELSE IF m.h2h = <<>>
             THEN LeagueLoop(league_key, matches, i + 1, t, acc)
             ELSE IF remove_vig_raises(m.h2h[1], m.h2h[2], m.h2h[3]) THEN {acc}
             ELSE UNION {LeagueLoop(league_key, matches, i + 1, t, Append(acc, match_data)) :
                            match_data \in Candidates(league_key, m, hours_to_kickoff)}

\* list.sort(key=selection_score, reverse=True): stable, equal scores keep
\* their order.  Insertion of x behind every element scoring at least as much.
RECURSIVE InsertByScore(_, _)
InsertByScore(sorted, x) ==
    IF sorted = <<>> THEN <<x>>
    ELSE IF Head(sorted).selection_score >= x.selection_score
    THEN <<Head(sorted)>> \o InsertByScore(Tail(sorted), x)
    ELSE <<x>> \o sorted

\* a sort that leaves the list as it is
Unsorted(s) == s

RECURSIVE SortByScore(_)
SortByScore(s) ==
    IF s = <<>> THEN <<>>
    ELSE InsertByScore(SortByScore(SubSeq(s, 1, Len(s) - 1)), s[Len(s)])

(***************************************************************************)
(* The world outside: the matches of the odds feed.  `kickoff` is the      *)
(* commence_time in half hours since midnight of day 0, `pick` and `odds`  *)
(* the analyzer's best_pick and best_odds for the match, `final` the final *)
(* score the results providers report once the match is over.              *)
(***************************************************************************)

Matches == {
    [match |-> "A", pick |-> txt_over_2_5_mal,   odds |-> 205, kickoff |-> 24,
     final |-> <<0, 1>>],
    [match |-> "B", pick |-> txt_uavgjort,       odds |-> 340, kickoff |-> 24,
     final |-> <<1, 1>>],
    [match |-> "C", pick |-> txt_auxerre_vinner, odds |-> 150, kickoff |-> 24,
     final |-> <<2, 0>>],
    [match |-> "D", pick |-> txt_over_2_5_mal,   odds |-> 190, kickoff |-> 48,
     final |-> <<1, 0>>]
  }

\* analyze_dagens_kamp: only matches in the next 6-96 hours are considered
Eligible(t) == {m \in Matches : 12 <= m.kickoff - t /\ m.kickoff - t <= 192}

\* the handlers in flight at a time: two of them, the scheduler's tick and a
\* request, or two requests
Procs == {1, 2}

\* the clock advances in steps of 6 hours, MaxTicks times
MaxTicks == 3

\* manual resets and settlements stop when the ledger has this many entries
MaxLedger == 4

\* date.today() at time `t` (half hours since midnight of day 0)
Today(t) == t \div 48

(***************************************************************************)
(* State                                                                   *)
(***************************************************************************)

VARIABLES
    g_pick,     \* determine_result: the argument pick
    g_home,     \* determine_result: the argument home_score
    g_away,     \* determine_result: the argument away_score
    g_pc,       \* determine_result: the rule about to be evaluated, or "done" / "raised"
    g_result,   \* determine_result: the value returned ("none" before it returns)
    g_skipped,  \* determine_result: the rules evaluated so far that gave no verdict
    now,          \* the clock, in half hours
    dagens_kamp,  \* table dagens_kamp: sequence of rows, id = position
    bankroll,     \* table bankroll: sequence of entries in insertion order
    pc,           \* per handler: the await it is suspended at
    l_row,        \* check_pending_results: row (rows[0] of the SELECT)
    l_wlp,        \* check_pending_results: wlp
    l_current,    \* apply_win / apply_loss / apply_push: current
    l_result,     \* check_pending_results: bankroll_result
    l_analysis,   \* analyze_and_store: analysis
    a_feed,       \* the odds API: its response for each of TOP5_LEAGUES
    a_pc,         \* analyze_and_store: where it stands, "off" while not running
    a_league,     \* analyze_dagens_kamp: the index of league in TOP5_LEAGUES
    all_matches,  \* analyze_dagens_kamp: all_matches
    a_result,     \* analyze_and_store: analysis, as analyze_dagens_kamp returns it
    mc_args,      \* monte_carlo_match: its arguments, and the seed of the generator
    mc,           \* monte_carlo_match: its locals
    rng,          \* module random: the state of the generator
    sim,          \* the values monte_carlo_match has returned, call after call
    est,          \* implied_over25 / implied_btts: the arguments and the values returned
    clock,        \* background_scheduler: the time in minutes (CET) since 00:00 of day 0
    sched,        \* background_scheduler: its locals
    ran           \* the hours in which the analysis was run and the summary sent

gvars == <<g_pick, g_home, g_away, g_pc, g_result, g_skipped>>

svars == <<now, dagens_kamp, bankroll, pc, l_row, l_wlp, l_current, l_result, l_analysis>>

avars == <<a_feed, a_pc, a_league, all_matches, a_result>>

mvars == <<mc_args, mc, rng, sim>>

bvars == <<clock, sched, ran>>

\* the variables of the simulation, the estimators and the scheduler
xvars == <<mc_args, mc, rng, sim, est, clock, sched, ran>>

vars == <<g_pick, g_home, g_away, g_pc, g_result, g_skipped,
          now, dagens_kamp, bankroll, pc, l_row, l_wlp, l_current, l_result, l_analysis,
          a_feed, a_pc, a_league, all_matches, a_result,
          mc_args, mc, rng, sim, est, clock, sched, ran>>

\* values of the locals while they hold nothing
NoRow == [id |-> 0, dato |-> 0, match |-> "", pick |-> <<>>, odds |-> 0,
          commence_time |-> 0, resultat |-> "NULL", home_score |-> 0,
          away_score |-> 0]

NoResult == [before |-> 0, after |-> 0, profit |-> 0, kind |-> "none"]

NoAnalysis == [match |-> "", pick |-> <<>>, odds |-> 0, commence_time |-> 0]

\* analyze_dagens_kamp has not returned: `match` holds best_match once there is
\* one, `error` the value of the key "error" ("" while the key is absent)
NoAnalysisResult == [status |-> "none", error |-> "", matches_analyzed |-> 0,
                     match |-> <<>>, kelly_stake_pct |-> 0, top_alternatives |-> <<>>]

\* monte_carlo_match is not running
NoSimulation == [pc |-> "off", i |-> 0, results |-> [home |-> 0, draw |-> 0, away |-> 0],
                 over25_count |-> 0, btts_count |-> 0, score_counts |-> <<>>,
                 goal_distributions |-> <<>>]

NoArguments == [home_prob |-> 0, draw_prob |-> 0, away_prob |-> 0, n_simulations |-> 0,
                seed |-> 0]

NoEstimate == [home_prob |-> 0, draw_prob |-> 0, away_prob |-> 0, over25 |-> -1,
               btts |-> -1]

\* background_scheduler is not running
NoScheduler == [pc |-> "off", last_analysis_date |-> -1, last_summary_date |-> -1,
                today |-> 0, hour |-> 0, minute |-> 0]

NoRuns == [analysis |-> <<>>, summary |-> <<>>]

\* monte_carlo_match is not running
SimulationOff ==
    /\ mc_args = NoArguments
    /\ mc = NoSimulation
    /\ rng = 0
    /\ sim = <<>>

\* no estimator is running
EstimateOff == est = NoEstimate

\* background_scheduler is not running
SchedulerOff ==
    /\ clock = 0
    /\ sched = NoScheduler
    /\ ran = NoRuns

\* neither the simulation, nor the estimators, nor the scheduler is running
RestOff ==
    /\ SimulationOff
    /\ EstimateOff
    /\ SchedulerOff

\* no analysis is running
AnalysisOff ==
    /\ a_feed = <<>>
    /\ a_pc = "off"
    /\ a_league = 0
    /\ all_matches = <<>>
    /\ a_result = NoAnalysisResult

(***************************************************************************)
(* The database                                                            *)
(***************************************************************************)

\* the final score the results providers report for a match; match G is the
\* one whose pick and final score are the values drawn for the arguments of
\* determine_result
FinalScore(match) ==
    IF match = "G" THEN <<g_home, g_away>>
    ELSE (CHOOSE m \in Matches : m.match = match).final

\* ensure_bankroll_tables: the ledger is seeded with the start bankroll
SeedEntry == [amount |-> BANKROLL_START, change_amount |-> 0,
              change_reason |-> "Start", dagens_kamp_id |-> 0, created_at |-> 0]

\* created_at DEFAULT NOW(): every INSERT is a request of its own, later than
\* the ones completed before it
NextCreatedAt(ledger) ==
    IF ledger = <<>> THEN 0
    ELSE 1 + (CHOOSE c \in {ledger[i].created_at : i \in DOMAIN ledger} :
                  \A i \in DOMAIN ledger : ledger[i].created_at <= c)

\* the amount of the oldest entry (ORDER BY created_at ASC)
oldest_bankroll(ledger) ==
    IF ledger = <<>> THEN BANKROLL_START
    ELSE LET k == CHOOSE i \in DOMAIN ledger :
                      \A j \in DOMAIN ledger : ledger[i].created_at <= ledger[j].created_at
         IN  ledger[k].amount

\* SELECT amount FROM bankroll ORDER BY created_at DESC LIMIT 1
get_current_bankroll(ledger) ==
    IF ledger = <<>> THEN BANKROLL_START
    ELSE LET k == CHOOSE i \in DOMAIN ledger :
                      \A j \in DOMAIN ledger : ledger[j].created_at <= ledger[i].created_at
         IN  ledger[k].amount

\* INSERT INTO bankroll (dato, amount, change_amount, change_reason, dagens_kamp_id)
InsertBankroll(ledger, amount, change, reason, dk_id) ==
    Append(ledger, [amount |-> amount, change_amount |-> change,
                    change_reason |-> reason, dagens_kamp_id |-> dk_id,
                    created_at |-> NextCreatedAt(ledger)])

\* SELECT * FROM dagens_kamp WHERE dato = today
RowsOfDate(rows, today) == {i \in DOMAIN rows : rows[i].dato = today}

\* SELECT * FROM dagens_kamp WHERE dato = today AND resultat IS NULL
\*   AND commence_time IS NOT NULL
PendingRows(rows, today) ==
    {i \in DOMAIN rows : rows[i].dato = today /\ rows[i].resultat = "NULL"}

\* a plain INSERT INTO dagens_kamp, with no uniqueness key on dato
InsertDagensKamp(rows, today, a) ==
    Append(rows, [id |-> Len(rows) + 1, dato |-> today, match |-> a.match,
                  pick |-> a.pick, odds |-> a.odds,
                  commence_time |-> a.commence_time, resultat |-> "NULL",
                  home_score |-> 0, away_score |-> 0])

\* INSERT INTO dagens_kamp ... ON CONFLICT (dato) DO UPDATE SET ... : the row of
\* the date keeps its id, resultat and scores
UpsertDagensKamp(rows, today, a) ==
    IF RowsOfDate(rows, today) # {}
    THEN [i \in DOMAIN rows |->
            IF rows[i].dato = today
            THEN [rows[i] EXCEPT !.match = a.match, !.pick = a.pick, !.odds = a.odds,
                                 !.commence_time = a.commence_time]
            ELSE rows[i]]
    ELSE Append(rows, [id |-> Len(rows) + 1, dato |-> today, match |-> a.match,
                       pick |-> a.pick, odds |-> a.odds,
                       commence_time |-> a.commence_time, resultat |-> "NULL",
                       home_score |-> 0, away_score |-> 0])

\* UPDATE dagens_kamp SET resultat, home_score, away_score ... WHERE id = dk_id
UpdateResult(rows, dk_id, wlp, home_score, away_score) ==
    [i \in DOMAIN rows |->
        IF rows[i].id = dk_id
        THEN [rows[i] EXCEPT !.resultat = wlp, !.home_score = home_score,
                             !.away_score = away_score]
        ELSE rows[i]]

(***************************************************************************)
(* main.py: the handlers.  A handler runs from one await to the next in a  *)
(* single step; between two steps of one handler the others may run.       *)
(***************************************************************************)

SysInit ==
    /\ now = 12
    /\ dagens_kamp = <<>>
    /\ bankroll = <<SeedEntry>>
    /\ pc = [p \in Procs |-> "idle"]
    /\ l_row = [p \in Procs |-> NoRow]
    /\ l_wlp = [p \in Procs |-> "none"]
    /\ l_current = [p \in Procs |-> 0]
    /\ l_result = [p \in Procs |-> NoResult]
    /\ l_analysis = [p \in Procs |-> NoAnalysis]
    /\ AnalysisOff

\* the handler of p returns: its locals are gone
Return(p) ==
    /\ pc' = [pc EXCEPT ![p] = "idle"]
    /\ l_row' = [l_row EXCEPT ![p] = NoRow]
    /\ l_wlp' = [l_wlp EXCEPT ![p] = "none"]
    /\ l_current' = [l_current EXCEPT ![p] = 0]
    /\ l_result' = [l_result EXCEPT ![p] = NoResult]
    /\ l_analysis' = [l_analysis EXCEPT ![p] = NoAnalysis]

\* check_pending_results, entered from background_scheduler or from
\* manual_check_result: the SELECT of today's pending row and the kickoff test
\* (now_utc < kickoff + 2 h 30 min returns); with no row it returns at once
CprSelect(p) ==
    /\ pc[p] = "idle"
    /\ \E i \in PendingRows(dagens_kamp, Today(now)) :
          /\ now >= dagens_kamp[i].commence_time + 5
          /\ l_row' = [l_row EXCEPT ![p] = dagens_kamp[i]]
    /\ pc' = [pc EXCEPT ![p] = "cpr_fetch"]
    /\ UNCHANGED <<now, dagens_kamp, bankroll, l_wlp, l_current, l_result, l_analysis>>
    /\ UNCHANGED <<gvars, avars, xvars>>

\* check_result_football_data / check_result_odds_api found the final score:
\* wlp = determine_result(pick, home_score, away_score)
CprFetchFound(p) ==
    /\ pc[p] = "cpr_fetch"
    /\ LET score == FinalScore(l_row[p].match)
           wlp   == determine_result(l_row[p].pick, score[1], score[2])
       IN  IF wlp \in Verdicts
           THEN /\ l_wlp' = [l_wlp EXCEPT ![p] = wlp]
                /\ pc' = [pc EXCEPT ![p] = "cpr_update"]
                /\ UNCHANGED <<l_row, l_current, l_result, l_analysis>>
           ELSE Return(p)
    /\ UNCHANGED <<now, dagens_kamp, bankroll>>
    /\ UNCHANGED <<gvars, avars, xvars>>

\* neither provider has a result: "No result found yet", return
CprFetchNone(p) ==
    /\ pc[p] = "cpr_fetch"
    /\ Return(p)
    /\ UNCHANGED <<now, dagens_kamp, bankroll>>
    /\ UNCHANGED <<gvars, avars, xvars>>

\* UPDATE dagens_kamp SET resultat = wlp, home_score, away_score WHERE id = dk_id
CprUpdate(p) ==
    /\ pc[p] = "cpr_update"
    /\ LET score == FinalScore(l_row[p].match)
       IN  dagens_kamp' = UpdateResult(dagens_kamp, l_row[p].id, l_wlp[p],
                                       score[1], score[2])
    /\ pc' = [pc EXCEPT ![p] = "apply_read"]
    /\ UNCHANGED <<now, bankroll, l_row, l_wlp, l_current, l_result, l_analysis>>
    /\ UNCHANGED <<gvars, avars, xvars>>

\* apply_win / apply_loss / apply_push: current = await get_current_bankroll(db_query)
ApplyRead(p) ==
    /\ pc[p] = "apply_read"
    /\ l_current' = [l_current EXCEPT ![p] = get_current_bankroll(bankroll)]
    /\ pc' = [pc EXCEPT ![p] = "apply_insert"]
    /\ UNCHANGED <<now, dagens_kamp, bankroll, l_row, l_wlp, l_result, l_analysis>>
    /\ UNCHANGED <<gvars, avars, xvars>>

\* apply_win: the INSERT and the value returned
ApplyWin(p) ==
    /\ pc[p] = "apply_insert"
    /\ l_wlp[p] = "W"
    /\ LET current == l_current[p]
       IN  \E after \in new_amount(current, l_row[p].odds) :
              /\ bankroll' = InsertBankroll(bankroll, after, profit(after, current),
                                            "WIN", l_row[p].id)
              /\ l_result' = [l_result EXCEPT ![p] =
                     [before |-> current, after |-> after,
                      profit |-> profit(after, current), kind |-> "W"]]
    /\ pc' = [pc EXCEPT ![p] = "cpr_telegram"]
    /\ UNCHANGED <<now, dagens_kamp, l_row, l_wlp, l_current, l_analysis>>
    /\ UNCHANGED <<gvars, avars, xvars>>

\* apply_loss: the INSERT and the value returned
ApplyLoss(p) ==
    /\ pc[p] = "apply_insert"
    /\ l_wlp[p] = "L"
    /\ LET current == l_current[p]
       IN  /\ bankroll' = InsertBankroll(bankroll, LossAmount(current), 0, "LOSS",
                                         l_row[p].id)
           /\ l_result' = [l_result EXCEPT ![p] =
                  [before |-> current, after |-> current, profit |-> 0, kind |-> "L"]]
    /\ pc' = [pc EXCEPT ![p] = "cpr_telegram"]
    /\ UNCHANGED <<now, dagens_kamp, l_row, l_wlp, l_current, l_analysis>>
    /\ UNCHANGED <<gvars, avars, xvars>>

\* apply_push: the INSERT and the value returned
ApplyPush(p) ==
    /\ pc[p] = "apply_insert"
    /\ l_wlp[p] = "P"
    /\ LET current == l_current[p]
       IN  /\ bankroll' = InsertBankroll(bankroll, PushAmount(current), 0, "PUSH",
                                         l_row[p].id)
           /\ l_result' = [l_result EXCEPT ![p] =
                  [before |-> current, after |-> current, profit |-> 0, kind |-> "P"]]
    /\ pc' = [pc EXCEPT ![p] = "cpr_telegram"]
    /\ UNCHANGED <<now, dagens_kamp, l_row, l_wlp, l_current, l_analysis>>
    /\ UNCHANGED <<gvars, avars, xvars>>

\* send_telegram(msg), then the flag result_posted_telegram (a column no
\* handler modelled here reads: it is left out of the rows), and return
CprTelegram(p) ==
    /\ pc[p] = "cpr_telegram"
    /\ Return(p)
    /\ UNCHANGED <<now, dagens_kamp, bankroll>>
    /\ UNCHANGED <<gvars, avars, xvars>>

\* a database or Telegram request of check_pending_results fails:
\* except Exception as e: print(...)
CprException(p) ==
    /\ pc[p] \in {"cpr_update", "apply_read", "apply_insert", "cpr_telegram"}
    /\ Return(p)
    /\ UNCHANGED <<now, dagens_kamp, bankroll>>
    /\ UNCHANGED <<gvars, avars, xvars>>

\* analyze_dagens_kamp, started now, returns the analysis of the selected match
\* (with an "error" result analyze_and_store returns at once, nothing changes)
Analyzed(p, m) ==
    /\ l_analysis' = [l_analysis EXCEPT ![p] =
          [match |-> m.match, pick |-> m.pick, odds |-> m.odds,
           commence_time |-> m.kickoff]]
    /\ pc' = [pc EXCEPT ![p] = "store"]
    /\ UNCHANGED <<now, dagens_kamp, bankroll, l_row, l_wlp, l_current, l_result>>
    /\ UNCHANGED <<gvars, avars, xvars>>

\* background_scheduler at 06:00, trigger_analysis, trigger_analysis_sync
TriggerAnalysis(p) ==
    /\ pc[p] = "idle"
    /\ \E m \in Eligible(now) : Analyzed(p, m)

\* get_dagens_kamp: the cached row of today, else analyze_and_store()
GetDagensKamp(p) ==
    /\ pc[p] = "idle"
    /\ RowsOfDate(dagens_kamp, Today(now)) = {}
    /\ \E m \in Eligible(now) : Analyzed(p, m)

\* analyze_and_store: today = date.today(); INSERT ... ON CONFLICT (dato) DO UPDATE
Store(p) ==
    /\ pc[p] = "store"
    /\ dagens_kamp' = UpsertDagensKamp(dagens_kamp, Today(now), l_analysis[p])
    /\ Return(p)
    /\ UNCHANGED <<now, bankroll>>
    /\ UNCHANGED <<gvars, avars, xvars>>

\* the INSERT fails: except Exception as e: print("DB store error")
StoreException(p) ==
    /\ pc[p] = "store"
    /\ Return(p)
    /\ UNCHANGED <<now, dagens_kamp, bankroll>>
    /\ UNCHANGED <<gvars, avars, xvars>>

\* reset_bankroll: INSERT INTO bankroll ... BANKROLL_START, 0, 'Manual reset'
ResetBankroll(p) ==
    /\ pc[p] = "idle"
    /\ Len(bankroll) < MaxLedger
    /\ bankroll' = InsertBankroll(bankroll, BANKROLL_START, 0, "Manual reset", 0)
    /\ UNCHANGED <<now, dagens_kamp, pc, l_row, l_wlp, l_current, l_result, l_analysis>>
    /\ UNCHANGED <<gvars, avars, xvars>>

\* six hours pass
Tick ==
    /\ now < 12 + 12 * MaxTicks
    /\ now' = now + 12
    /\ UNCHANGED <<dagens_kamp, bankroll, pc, l_row, l_wlp, l_current, l_result, l_analysis>>
    /\ UNCHANGED <<gvars, avars, xvars>>

\* determine_result is not running
GradeOff ==
    /\ g_pick = <<>>
    /\ g_home = 0
    /\ g_away = 0
    /\ g_pc = "off"
    /\ g_result = "none"
    /\ g_skipped = <<>>

Init ==
    /\ SysInit
    /\ GradeOff
    /\ RestOff

Next ==
    \/ \E p \in Procs : CprSelect(p)
    \/ \E p \in Procs : CprFetchFound(p)
    \/ \E p \in Procs : CprFetchNone(p)
    \/ \E p \in Procs : CprUpdate(p)
    \/ \E p \in Procs : ApplyRead(p)
    \/ \E p \in Procs : ApplyWin(p)
    \/ \E p \in Procs : ApplyLoss(p)
    \/ \E p \in Procs : ApplyPush(p)
    \/ \E p \in Procs : CprTelegram(p)
    \/ \E p \in Procs : CprException(p)
    \/ \E p \in Procs : TriggerAnalysis(p)
    \/ \E p \in Procs : GetDagensKamp(p)
    \/ \E p \in Procs : Store(p)
    \/ \E p \in Procs : StoreException(p)
    \/ \E p \in Procs : ResetBankroll(p)
    \/ Tick

Spec == Init /\ [][Next]_vars

(***************************************************************************)
(* The bankroll transitions on their own: a settlement that has recorded   *)
(* its result (check_pending_results is about to call apply_win,           *)
(* apply_loss or apply_push) on a ledger that earlier days' wins have      *)
(* brought to some balance.                                                *)
(***************************************************************************)

\* decimal odds (hundredths) of the picks settled
OddsSet == {150, 200, 205, 215, 333}

\* the ledger holds at most this many wins of earlier days
MaxPriorWins == 2

PriorOdds == UNION {[1..n -> OddsSet] : n \in 0..MaxPriorWins}

\* the ledgers after the picks of days 0 .. Len(chain)-1 won at the odds of chain
RECURSIVE LedgersAfterWins(_)
LedgersAfterWins(chain) ==
    IF chain = <<>> THEN {<<SeedEntry>>}
    ELSE LET n == Len(chain)
         IN  UNION {
                 LET current == get_current_bankroll(ledger)
                 IN  {InsertBankroll(ledger, after, profit(after, current), "WIN", n) :
                          after \in new_amount(current, chain[n])} :
                 ledger \in LedgersAfterWins(SubSeq(chain, 1, n - 1))}

\* the row of day d (id d + 1): match A, kickoff at 12:00
RowOfDay(d, odds, resultat) ==
    [id |-> d + 1, dato |-> d, match |-> "A", pick |-> txt_over_2_5_mal,
     odds |-> odds, commence_time |-> 48 * d + 24, resultat |-> resultat,
     home_score |-> 0, away_score |-> 1]

LedgerInit ==
    \E chain \in PriorOdds : \E odds \in OddsSet : \E wlp \in Verdicts :
        LET n == Len(chain)
        IN  /\ now = 48 * n + 36
            /\ dagens_kamp = [d \in 1..(n + 1) |->
                                 IF d <= n THEN RowOfDay(d - 1, chain[d], "W")
                                 ELSE RowOfDay(n, odds, wlp)]
            /\ bankroll \in LedgersAfterWins(chain)
            /\ pc = [p \in Procs |-> IF p = 1 THEN "apply_read" ELSE "idle"]
            /\ l_row = [p \in Procs |->
                           IF p = 1 THEN RowOfDay(n, odds, "NULL") ELSE NoRow]
            /\ l_wlp = [p \in Procs |-> IF p = 1 THEN wlp ELSE "none"]
            /\ l_current = [p \in Procs |-> 0]
            /\ l_result = [p \in Procs |-> NoResult]
            /\ l_analysis = [p \in Procs |-> NoAnalysis]
            /\ AnalysisOff
            /\ RestOff
            /\ g_pick = <<>>
            /\ g_home = 0
            /\ g_away = 0
            /\ g_pc = "off"
            /\ g_result = "none"
            /\ g_skipped = <<>>

LedgerNext ==
    \/ \E p \in Procs : ApplyRead(p)
    \/ \E p \in Procs : ApplyWin(p)
    \/ \E p \in Procs : ApplyLoss(p)
    \/ \E p \in Procs : ApplyPush(p)
    \/ \E p \in Procs : CprTelegram(p)

LedgerSpec == LedgerInit /\ [][LedgerNext]_vars

(***************************************************************************)
(* A settlement on its own: check_pending_results has selected the pending *)
(* row of the day, whose pick is any of the texts, and the providers       *)
(* report any final score.                                                 *)
(***************************************************************************)

\* the row of match G on day d (id d + 1), kickoff at 12:00
RowOfG(d, text) ==
    [id |-> d + 1, dato |-> d, match |-> "G", pick |-> text, odds |-> 205,
     commence_time |-> 48 * d + 24, resultat |-> "NULL", home_score |-> 0,
     away_score |-> 0]

SettleInit ==
    \E chain \in {<<>>, <<200>>} :
        LET n == Len(chain)
        IN  /\ g_pick \in PickTexts
            /\ g_home \in Scores
            /\ g_away \in Scores
            /\ g_pc = "off"
            /\ g_result = "none"
            /\ g_skipped = <<>>
            /\ now = 48 * n + 36
            /\ dagens_kamp = [d \in 1..(n + 1) |->
                                 IF d <= n THEN RowOfDay(d - 1, chain[d], "W")
                                 ELSE RowOfG(n, g_pick)]
            /\ bankroll \in LedgersAfterWins(chain)
            /\ pc = [p \in Procs |-> IF p = 1 THEN "cpr_fetch" ELSE "idle"]
            /\ l_row = [p \in Procs |-> IF p = 1 THEN RowOfG(n, g_pick) ELSE NoRow]
            /\ l_wlp = [p \in Procs |-> "none"]
            /\ l_current = [p \in Procs |-> 0]
            /\ l_result = [p \in Procs |-> NoResult]
            /\ l_analysis = [p \in Procs |-> NoAnalysis]
            /\ AnalysisOff
            /\ RestOff

SettleNext ==
    \/ \E p \in Procs : CprFetchFound(p)
    \/ \E p \in Procs : CprFetchNone(p)
    \/ \E p \in Procs : CprUpdate(p)
    \/ \E p \in Procs : ApplyRead(p)
    \/ \E p \in Procs : ApplyWin(p)
    \/ \E p \in Procs : ApplyLoss(p)
    \/ \E p \in Procs : ApplyPush(p)
    \/ \E p \in Procs : CprTelegram(p)
    \/ \E p \in Procs : CprException(p)

SettleSpec == SettleInit /\ [][SettleNext]_vars

(***************************************************************************)
(* determine_result, one rule per step                                     *)
(***************************************************************************)

GradeInit ==
    /\ g_pick \in PickTexts
    /\ g_home \in Scores
    /\ g_away \in Scores
    /\ g_pc = "over"
    /\ g_result = "none"
    /\ g_skipped = <<>>
    /\ SysInit
    /\ RestOff

\* evaluate rule `rule`; go on with `next` when it gives no verdict
GradeStep(rule, next) ==
    /\ g_pc = rule
    /\ LET v == RuleVerdict(rule, g_pick, g_home, g_away)
       IN  /\ g_pc' = IF v = "none" THEN next ELSE IF v = "raise" THEN "raised" ELSE "done"
           /\ g_result' = IF v \in Verdicts THEN v ELSE g_result
           /\ g_skipped' = IF v = "none" THEN Append(g_skipped, rule) ELSE g_skipped
    /\ UNCHANGED <<g_pick, g_home, g_away>>
    /\ UNCHANGED <<svars, avars, xvars>>

GradeOver ==
    /\ g_pc = "over"
    /\ GradeStep("over", "under")

GradeUnder ==
    /\ g_pc = "under"
    /\ GradeStep("under", "btts")

GradeBtts ==
    /\ g_pc = "btts"
    /\ GradeStep("btts", "x12")

GradeX12 ==
    /\ g_pc = "x12"
    /\ GradeStep("x12", "handicap")

GradeHandicap ==
    /\ g_pc = "handicap"
    /\ GradeStep("handicap", "fallback")

GradeFallback ==
    /\ g_pc = "fallback"
    /\ GradeStep("fallback", "done")

GradeNext ==
    \/ GradeOver
    \/ GradeUnder
    \/ GradeBtts
    \/ GradeX12
    \/ GradeHandicap
    \/ GradeFallback

GradeSpec == GradeInit /\ [][GradeNext]_vars

(***************************************************************************)
(* analyze_and_store: one run, from the first request to the odds API to   *)
(* the row in dagens_kamp.  analyze_dagens_kamp is suspended at each       *)
(* client.get; what lies between two of them is one step.                  *)
(***************************************************************************)

\* TOP5_LEAGUES, the keys
TOP5_LEAGUES == <<"soccer_epl", "soccer_spain_la_liga", "soccer_italy_serie_a",
                  "soccer_germany_bundesliga", "soccer_france_ligue_one">>

\* a response that is no list of matches: a status other than 200, an
\* exception of client.get (a timeout), a JSON body that is not a list
FailedResponses == {[outcome |-> o, matches |-> <<>>] : o \in {"status", "raised", "notlist"}}

\* the analysis is started at 06:00 of day 0
AnalysisTime == 12

\* a match of the feed, before it has its id: kickoff in 24 hours, three
\* bookmakers
FeedMatch(h2h, over) ==
    [id |-> "", home_team |-> txt_arsenal, away_team |-> txt_auxerre,
     commence_time |-> [form |-> "iso", at |-> AnalysisTime + 48],
     bookmakers |-> 3, h2h |-> h2h, over |-> over]

\* Over 2.5 at 2.10 is worth picking, at 1.90 less so, and a lone favourite at
\* 1.40 has no outcome of positive EV
OverAt210 == FeedMatch(<<200, 340, 400>>, 210)

OverAt190 == FeedMatch(<<200, 340, 400>>, 190)

Favourite == FeedMatch(<<140, 400, 400>>, 0)

\* kickoff in 100 hours: outside the window of 6 to 96 hours
TooLate == [OverAt210 EXCEPT !.commence_time.at = AnalysisTime + 200]

\* no bookmaker quotes the match
NoH2h == [OverAt210 EXCEPT !.bookmakers = 0, !.h2h = <<>>, !.over = 0]

\* commence_time is not an ISO date: datetime.fromisoformat raises ValueError
BadKickoff == [OverAt210 EXCEPT !.commence_time = [form |-> "bad", at |-> 0]]

\* there is no commence_time: m["commence_time"] raises KeyError
MissingKickoff == [OverAt210 EXCEPT !.commence_time = [form |-> "missing", at |-> 0]]

\* the consensus of the home odds is 0
ZeroOdds == [OverAt210 EXCEPT !.h2h = <<0, 340, 400>>]

FeedKinds == {OverAt210, TooLate, NoH2h, BadKickoff, MissingKickoff, ZeroOdds}

RankKinds == {OverAt210, OverAt190, Favourite}

\* the odds of the matches analyzed on their own
H2hOdds == {150, 200, 300, 340, 400}

OverOdds == {0, 190, 210}

\* the longest response of a league in the feeds with malformed matches
MaxFeed == 2

\* the longest response of the first league in the feeds that are ranked
MaxRanked == 3

Lists(S, n) == UNION {[1..k -> S] : k \in 0..n}

\* the matches of a league's response: m["id"] tells league and position
Response(league, kinds) ==
    [outcome |-> "ok",
     matches |-> [i \in 1..Len(kinds) |->
                     [kinds[i] EXCEPT !.id = ToString(10 * league + i)]]]

\* the responses to the five requests: those of the first two leagues, the
\* other three with a status other than 200
FeedOf(first, second) ==
    [league \in 1..Len(TOP5_LEAGUES) |->
        IF league = 1 THEN first
        ELSE IF league = 2 THEN second
        ELSE [outcome |-> "status", matches |-> <<>>]]

MalformedFeeds ==
    {FeedOf(first, second) :
        first \in FailedResponses \cup {Response(1, k) : k \in Lists(FeedKinds, MaxFeed)},
        second \in FailedResponses \cup {Response(2, k) : k \in Lists(FeedKinds, 1)}}

RankedFeeds ==
    {FeedOf(Response(1, k1), Response(2, k2)) :
        k1 \in Lists(RankKinds, MaxRanked), k2 \in Lists(RankKinds, 2)}

OddsFeeds ==
    {FeedOf(Response(1, <<FeedMatch(<<h, d, a>>, over)>>),
            [outcome |-> "status", matches |-> <<>>]) :
        h \in H2hOdds, d \in H2hOdds, a \in H2hOdds, over \in OverOdds}

Feeds == MalformedFeeds \cup RankedFeeds \cup OddsFeeds

\* the row an earlier analysis of the day has stored
RowOfToday ==
    [id |-> 1, dato |-> Today(AnalysisTime), match |-> "A", pick |-> txt_over_2_5_mal,
     odds |-> 205, commence_time |-> 24, resultat |-> "NULL", home_score |-> 0,
     away_score |-> 0]

AnalyzeInit ==
    /\ a_feed \in Feeds
    /\ a_pc = "fetch"
    /\ a_league = 1
    /\ all_matches = <<>>
    /\ a_result = NoAnalysisResult
    /\ now = AnalysisTime
    /\ dagens_kamp \in {<<>>, <<RowOfToday>>}
    /\ bankroll = <<SeedEntry>>
    /\ pc = [p \in Procs |-> "idle"]
    /\ l_row = [p \in Procs |-> NoRow]
    /\ l_wlp = [p \in Procs |-> "none"]
    /\ l_current = [p \in Procs |-> 0]
    /\ l_result = [p \in Procs |-> NoResult]
    /\ l_analysis = [p \in Procs |-> NoAnalysis]
    /\ g_pick = <<>>
    /\ g_home = 0
    /\ g_away = 0
    /\ g_pc = "off"
    /\ g_result = "none"
    /\ g_skipped = <<>>
    /\ RestOff

\* for league in TOP5_LEAGUES: the next league, or the end of the loop
NextLeague ==
    /\ a_league' = a_league + 1
    /\ a_pc' = IF a_league = Len(TOP5_LEAGUES) THEN "select" ELSE "fetch"

\* resp.status_code != 200, not isinstance(matches, list), or client.get
\* raises: continue
AnalyzeLeagueFailed ==
    /\ a_pc = "fetch"
    /\ a_feed[a_league].outcome # "ok"
    /\ NextLeague
    /\ UNCHANGED <<a_feed, all_matches, a_result>>
    /\ UNCHANGED <<gvars, svars, xvars>>

\* matches = resp.json(); for m in matches: ...
AnalyzeLeague ==
    /\ a_pc = "fetch"
    /\ a_feed[a_league].outcome = "ok"
    /\ all_matches' \in LeagueLoop(TOP5_LEAGUES[a_league], a_feed[a_league].matches,
                                   1, now, all_matches)
    /\ NextLeague
    /\ UNCHANGED <<a_feed, a_result>>
    /\ UNCHANGED <<gvars, svars, xvars>>

\* if not all_matches: return {"error": "Ingen kamper funnet", "matches_analyzed": 0}
AnalyzeNoMatches ==
    /\ a_pc = "select"
    /\ all_matches = <<>>
    /\ a_result' = [status |-> "error", error |-> "Ingen kamper funnet",
                    matches_analyzed |-> 0, match |-> <<>>, kelly_stake_pct |-> 0,
                    top_alternatives |-> <<>>]
    /\ a_pc' = "returned"
    /\ UNCHANGED <<a_feed, a_league, all_matches>>
    /\ UNCHANGED <<gvars, svars, xvars>>

\* "vinner" in best_match["best_pick"].lower()
kw_vinner == <<"v","i","n","n","e","r">>

\* _kelly_stake raises ZeroDivisionError at (b * prob - q) / b when odds = 1.00
kelly_stake_raises(odds) == odds = 100

\* _kelly_stake(prob, odds, fraction = 0.25): b = odds - 1, q = 1 - prob,
\* kelly = (b * prob - q) / b, round(max(0, min(5, kelly * fraction * 100)), 2),
\* in hundredths of a percent: kelly * 25 * 100 = n / (4 * b) with
\* n = b * prob - 100 * q over odds in hundredths and prob in ten-thousandths
kelly_stake(prob, odds) ==
    LET b == odds - 100
        q == 10000 - prob
        n == IF b > 0 THEN b * prob - 100 * q ELSE 100 * q - b * prob
        den == IF b > 0 THEN 4 * b ELSE 0 - 4 * b
    IN  IF n <= 0 THEN {0}
        ELSE IF n >= 500 * den THEN {500}
        ELSE Round(n, den, 0)

\* the probability handed to _kelly_stake: true_probs["home"] if "vinner" in
\* best_pick.lower() and home_team in best_pick, else true_probs["away"] if
\* "vinner" in best_pick.lower(), else over25_prob
KellyProb(best_match) ==
    IF /\ Contains(kw_vinner, lower(best_match.best_pick))
       /\ Contains(best_match.home_team, best_match.best_pick)
    THEN best_match.true_probs.home
    ELSE IF Contains(kw_vinner, lower(best_match.best_pick))
    THEN best_match.true_probs.away
    ELSE best_match.over25_prob

\* all_matches.sort(...); best_match = all_matches[0]; kelly = _kelly_stake(...);
\* return {"status": "ok", "matches_analyzed": len(all_matches), "match": ...,
\* "recommendation": {..., "kelly_stake_pct": kelly}, "top_alternatives":
\* [... for m in all_matches[1:4]]}.  best_odds is 0 or the odds of an outcome
\* with positive EV, which are above 1.00, so that _kelly_stake does not raise.
AnalyzeSelect ==
    /\ a_pc = "select"
    /\ all_matches # <<>>
    /\ all_matches' = SortByScore(all_matches)
    /\ ~kelly_stake_raises(all_matches'[1].best_odds)
    /\ \E kelly \in kelly_stake(KellyProb(all_matches'[1]), all_matches'[1].best_odds) :
          a_result' = [status |-> "ok", error |-> "",
                       matches_analyzed |-> Len(all_matches'),
                       match |-> <<all_matches'[1]>>,
                       kelly_stake_pct |-> kelly,
                       top_alternatives |-> SubSeq(all_matches', 2, Min2(4, Len(all_matches')))]
    /\ a_pc' = "returned"
    /\ UNCHANGED <<a_feed, a_league>>
    /\ UNCHANGED <<gvars, svars, xvars>>

\* the row analyze_and_store writes for the analysis
RowOfAnalysis(analysis) ==
    [match |-> analysis.match[1].id, pick |-> analysis.match[1].best_pick,
     odds |-> analysis.match[1].best_odds,
     commence_time |-> analysis.match[1].commence_time]

\* the table after analyze_and_store has stored the analysis, error or not
StoredWhatever(rows, today, analysis) ==
    UpsertDagensKamp(rows, today,
        IF analysis.match = <<>> THEN NoAnalysis ELSE RowOfAnalysis(analysis))

\* analyze_and_store: if "error" in analysis: return analysis; else INSERT ...
\* ON CONFLICT (dato) DO UPDATE
StoredAnalysis(rows, today, analysis) ==
    IF analysis.error # "" THEN rows
    ELSE UpsertDagensKamp(rows, today, RowOfAnalysis(analysis))

\* analyze_and_store after analyze_dagens_kamp has returned
AnalyzeStore ==
    /\ a_pc = "returned"
    /\ dagens_kamp' = StoredAnalysis(dagens_kamp, Today(now), a_result)
    /\ a_pc' = "done"
    /\ UNCHANGED <<a_feed, a_league, all_matches, a_result>>
    /\ UNCHANGED <<now, bankroll, pc, l_row, l_wlp, l_current, l_result, l_analysis>>
    /\ UNCHANGED <<gvars, xvars>>

\* the INSERT fails: except Exception as e: print("DB store error")
AnalyzeStoreException ==
    /\ a_pc = "returned"
    /\ a_result.error = ""
    /\ a_pc' = "done"
    /\ UNCHANGED <<a_feed, a_league, all_matches, a_result>>
    /\ UNCHANGED <<gvars, svars, xvars>>

AnalyzeNext ==
    \/ AnalyzeLeagueFailed
    \/ AnalyzeLeague
    \/ AnalyzeNoMatches
    \/ AnalyzeSelect
    \/ AnalyzeStore
    \/ AnalyzeStoreException

AnalyzeSpec == AnalyzeInit /\ [][AnalyzeNext]_vars

(***************************************************************************)
(* Properties of the bankroll ledger and of the table dagens_kamp          *)
(***************************************************************************)

\* the ledger entries appended for the pick with id dk_id
EntriesOfPick(dk_id) == {k \in DOMAIN bankroll : bankroll[k].dagens_kamp_id = dk_id}

\* the ledger without its last entry
Earlier(ledger) == SubSeq(ledger, 1, Len(ledger) - 1)

\* the last entry of the ledger
Latest(ledger) == ledger[Len(ledger)]

\* C1: when result checking runs concurrently for the same day's pick, the
\* appends are serialized: at most one ledger entry is ever appended for a
\* pick, so a Win multiplies the balance by the odds once.
C1_OneEntryPerPick ==
    \A i \in DOMAIN dagens_kamp : Cardinality(EntriesOfPick(dagens_kamp[i].id)) <= 1

\* C2: the ledger is append-only.  A step that changes it appends exactly one
\* entry and leaves the earlier entries as they were; the INSERT of apply_win,
\* apply_loss and apply_push always appends one; and get_current_bankroll
\* returns the amount of the entry appended last.
C2_AppendOnly ==
    [][ /\ bankroll' # bankroll =>
              /\ Len(bankroll') = Len(bankroll) + 1
              /\ Earlier(bankroll') = bankroll
        /\ (\E p \in Procs : pc[p] = "apply_insert" /\ pc'[p] = "cpr_telegram") =>
              Len(bankroll') = Len(bankroll) + 1
        /\ get_current_bankroll(bankroll') = Latest(bankroll').amount
      ]_vars

\* C2 witness: a win was appended, then a manual reset, and the balance read
\* is the reset's amount, not the win's
C2_ResetAfterWin ==
    /\ Len(bankroll) >= 3
    /\ \E k \in DOMAIN bankroll :
          bankroll[k].change_reason = "WIN" /\ bankroll[k].amount > BANKROLL_START
    /\ Latest(bankroll).change_reason = "Manual reset"
    /\ get_current_bankroll(bankroll) = BANKROLL_START

\* C3: apply_win on prior balance B at odds o appends an entry whose amount
\* is B * o rounded to the nearest hundredth and whose change is that amount
\* minus B, and returns before = B, after = the amount, profit = the change;
\* B = 100.00 and o = 2.00 give 200.00 and 100.00.
C3_ApplyWin ==
    \A p \in Procs :
        l_result[p].kind = "W" =>
            LET r == l_result[p]
                o == l_row[p].odds
                e == Latest(bankroll)
            IN  /\ r.before = get_current_bankroll(Earlier(bankroll))
                /\ 100 * r.after - r.before * o <= 50
                /\ r.before * o - 100 * r.after <= 50
                /\ r.profit = r.after - r.before
                /\ e.amount = r.after
                /\ e.change_amount = r.profit
                /\ e.change_reason = "WIN"
                /\ e.dagens_kamp_id = l_row[p].id
                /\ (r.before = 10000 /\ o = 200) => (r.after = 20000 /\ r.profit = 10000)

\* C3 witness: a win on a balance compounded by earlier wins whose product
\* with the odds is rounded up to the next hundredth
C3_RoundedWin ==
    \E p \in Procs :
        /\ l_result[p].kind = "W"
        /\ Len(bankroll) >= 3
        /\ (l_result[p].before * l_row[p].odds) % 100 > 50
        /\ 100 * l_result[p].after > l_result[p].before * l_row[p].odds

\* C4: apply_loss and apply_push append an entry whose amount is the prior
\* balance and whose change is 0, and return after = before and profit = 0.
C4_LossPushUnchanged ==
    \A p \in Procs :
        l_result[p].kind \in {"L", "P"} =>
            LET r == l_result[p]
                e == Latest(bankroll)
            IN  /\ r.before = get_current_bankroll(Earlier(bankroll))
                /\ r.after = r.before
                /\ r.profit = 0
                /\ e.amount = r.before
                /\ e.change_amount = 0
                /\ e.change_reason = (IF r.kind = "L" THEN "LOSS" ELSE "PUSH")
                /\ get_current_bankroll(bankroll) = r.before

\* C4 witness: a push settled on a balance that earlier wins have raised
C4_PushAfterWins ==
    \E p \in Procs :
        /\ l_result[p].kind = "P"
        /\ l_result[p].before > BANKROLL_START
        /\ Latest(bankroll).change_reason = "PUSH"

\* C5: after any sequence of settlements and manual resets no ledger entry,
\* and so no balance read, is negative.
C5_NeverNegative ==
    /\ \A k \in DOMAIN bankroll : bankroll[k].amount >= 0
    /\ get_current_bankroll(bankroll) >= 0

\* C5 witness: two losses and a manual reset are in the ledger
C5_LossesAndReset ==
    /\ Cardinality({k \in DOMAIN bankroll : bankroll[k].change_reason = "LOSS"}) >= 2
    /\ \E k \in DOMAIN bankroll : bankroll[k].change_reason = "Manual reset"

\* C6: whatever analysis runs have stored, overlapping or not, the table
\* holds at most one row per calendar date.
C6_OneRowPerDate ==
    \A i, j \in DOMAIN dagens_kamp :
        dagens_kamp[i].dato = dagens_kamp[j].dato => i = j

\* C6 witness: the row of day 0 holds match D, which cannot be settled on
\* day 0, together with a result: a later analysis run has stored into the
\* row that an earlier one created
C6_StoredTwice ==
    \E i \in DOMAIN dagens_kamp :
        /\ dagens_kamp[i].match = "D"
        /\ dagens_kamp[i].resultat # "NULL"

\* C7: once a result is recorded in a row, no later step changes the row's
\* teams, pick label, odds or result.
C7_SettledRowFrozen ==
    [][ \A i \in DOMAIN dagens_kamp :
            dagens_kamp[i].resultat # "NULL" =>
                /\ i \in DOMAIN dagens_kamp'
                /\ dagens_kamp'[i].match = dagens_kamp[i].match
                /\ dagens_kamp'[i].pick = dagens_kamp[i].pick
                /\ dagens_kamp'[i].odds = dagens_kamp[i].odds
                /\ dagens_kamp'[i].resultat = dagens_kamp[i].resultat
      ]_vars

(***************************************************************************)
(* Properties of determine_result                                          *)
(***************************************************************************)

\* the verdict for a totals pick c of TotalsCases at `total` goals: the line
\* is c.num / c.den
TotalsExpected(c, total) ==
    IF c.dir = "over"
    THEN (IF total * c.den > c.num THEN "W"
          ELSE IF total * c.den = c.num THEN "P" ELSE "L")
    ELSE (IF total * c.den < c.num THEN "W"
          ELSE IF total * c.den = c.num THEN "P" ELSE "L")

\* C8: for a text made of "over" (resp. "under") in any letter case and a
\* numeric line, determine_result does not raise and returns W when the total
\* of goals is above (resp. below) the line, P when it equals the line, and L
\* otherwise; the verdict is the totals rule's own.
C8_Totals ==
    \A c \in TotalsCases :
        g_pick = c.text =>
            /\ g_pc # "raised"
            /\ g_pc = "done" =>
                  /\ g_result = TotalsExpected(c, g_home + g_away)
                  /\ g_skipped = (IF c.dir = "over" THEN <<>> ELSE <<"over">>)

\* C8 witness: an "over" text with capital letters was graded a push
C8_UpperCasePush ==
    \E c \in TotalsCases :
        /\ g_pick = c.text
        /\ c.dir = "over"
        /\ lower(c.text) # c.text
        /\ g_pc = "done"
        /\ g_result = "P"
        /\ (g_home + g_away) * c.den = c.num

\* texts with "over" or "under" whose remainder is no number
UnparsableTotals == {
    txt_over_2_5_mal, txt_over, txt_over_under, txt_under_x, txt_over_two,
    txt_under_2_5_goals, txt_btts_over_2_5, txt_btts_under
  }

\* Asian-handicap texts for the home side with no number to parse
UnparsableHandicap == {txt_ah_home, txt_handicap_home, txt_home_ah}

\* C9: determine_result never raises; the rules that gave no verdict are an
\* initial part of the cascade over, under, BTTS, 1X2, handicap, fallback; a
\* totals text with no parsable line passes the totals rules without verdict
\* and is graded by a later rule; a handicap text with no parsable number
\* passes the handicap rule without verdict and gets the fallback's P.
C9_ParseFailureFallsThrough ==
    /\ g_pc # "raised"
    /\ Len(g_skipped) <= Len(Rules)
    /\ \A k \in DOMAIN g_skipped : g_skipped[k] = Rules[k]
    /\ (g_pick \in UnparsableTotals /\ g_pc \notin {"over", "under"}) =>
          /\ Len(g_skipped) >= 2
          /\ g_pc = "done" => g_result \in Verdicts
    /\ (g_pick \in UnparsableHandicap /\ g_pc = "done") =>
          /\ g_skipped = <<"over", "under", "btts", "x12", "handicap">>
          /\ g_result = "P"

\* C9 witness: "Over 2.5 mål" has passed both totals rules and the BTTS rule
\* without verdict and is at the 1X2 rule
C9_OverMalAt1X2 ==
    /\ g_pick = txt_over_2_5_mal
    /\ g_pc = "x12"
    /\ g_skipped = <<"over", "under", "btts">>

\* texts with a BTTS marker that the totals rules do not grade; `negated`
\* tells whether the text contains "no" or "nei"
BttsCases == {
    [text |-> txt_btts_ja,                negated |-> FALSE],
    [text |-> txt_btts_no,                negated |-> TRUE],
    [text |-> txt_btts_nei,               negated |-> TRUE],
    [text |-> txt_begge_lag_scorer,       negated |-> FALSE],
    [text |-> txt_begge_lag_scorer_nei,   negated |-> TRUE],
    [text |-> txt_both_teams_to_score,    negated |-> FALSE],
    [text |-> txt_both_teams_to_score_no, negated |-> TRUE],
    [text |-> txt_btts_1,                 negated |-> FALSE],
    [text |-> txt_btts_x2_no,             negated |-> TRUE],
    [text |-> txt_btts_12,                negated |-> FALSE],
    [text |-> txt_btts_over_2_5,          negated |-> FALSE],
    [text |-> txt_btts_under,             negated |-> FALSE],
    [text |-> txt_btts_ah_home_1,         negated |-> FALSE],
    [text |-> txt_btts_norwich,           negated |-> TRUE],
    [text |-> txt_both_teams_x,           negated |-> FALSE]
  }

\* C10: a text with a BTTS marker that the totals rules did not grade is
\* graded by the BTTS rule, whatever 1/x/2/handicap tokens it holds: with
\* "no" or "nei" in it W iff a side did not score, else W iff both scored;
\* in every other case L, never P.
C10_Btts ==
    \A c \in BttsCases :
        (g_pick = c.text /\ g_pc \notin {"over", "under", "btts"}) =>
            /\ g_pc = "done"
            /\ g_skipped = <<"over", "under">>
            /\ g_result = (IF c.negated
                           THEN (IF g_home = 0 \/ g_away = 0 THEN "W" ELSE "L")
                           ELSE (IF g_home > 0 /\ g_away > 0 THEN "W" ELSE "L"))

\* C10 witness: "BTTS X2 no" at 0-2 is a win (the 1X2 reading X2 would win
\* too) and "BTTS nei" needs the Norwegian negation
C10_NegatedWin ==
    /\ g_pick \in {txt_btts_x2_no, txt_btts_nei}
    /\ g_pc = "done"
    /\ g_result = "W"
    /\ g_home = 0
    /\ g_away = 2

\* texts that the totals and BTTS rules do not grade, with the one of the
\* tokens 1, x, 2 they contain alone (`single`, "none" when there is not
\* exactly one) and the composites 1x, x2, 12 they contain
X12Cases == {
    [text |-> txt_1,                      single |-> "1",    composites |-> {}],
    [text |-> txt_1_b,                    single |-> "1",    composites |-> {}],
    [text |-> txt_x,                      single |-> "X",    composites |-> {}],
    [text |-> txt_2,                      single |-> "2",    composites |-> {}],
    [text |-> txt_1_fc_heidenheim_vinner, single |-> "1",    composites |-> {}],
    [text |-> txt_auxerre_vinner,         single |-> "X",    composites |-> {}],
    [text |-> txt_over_2_5_mal,           single |-> "2",    composites |-> {}],
    [text |-> txt_1x,                     single |-> "none", composites |-> {"1x"}],
    [text |-> txt_x2,                     single |-> "none", composites |-> {"x2"}],
    [text |-> txt_12,                     single |-> "none", composites |-> {"12"}],
    [text |-> txt_double_chance_1x,       single |-> "none", composites |-> {"1x"}],
    [text |-> txt_1x2,                    single |-> "none", composites |-> {"1x", "x2"}]
  }

\* the actual symbols a composite names
PairOf(composite) ==
    IF composite = "1x" THEN {"1", "X"}
    ELSE IF composite = "x2" THEN {"X", "2"}
    ELSE {"1", "2"}

\* the actual symbol of the score graded, from the scores themselves
ActualOfScore ==
    IF g_home > g_away THEN "1" ELSE IF g_home < g_away THEN "2" ELSE "X"

\* the composite that decides: the first of 1x, x2, 12 the text contains
FirstComposite(composites) ==
    IF "1x" \in composites THEN "1x"
    ELSE IF "x2" \in composites THEN "x2"
    ELSE "12"

\* C11 (as stated): a text with exactly one of the tokens 1, x, 2 is W iff the
\* actual symbol is that token, else L; a text containing a composite 1x, x2
\* or 12 is W iff the actual symbol is in the pair the composite names, else
\* L - for every composite the text contains.
C11_EveryComposite ==
    \A c \in X12Cases :
        (g_pick = c.text /\ g_pc = "done") =>
            /\ c.single # "none" =>
                  g_result = (IF ActualOfScore = c.single THEN "W" ELSE "L")
            /\ \A composite \in c.composites :
                  g_result = (IF ActualOfScore \in PairOf(composite) THEN "W" ELSE "L")

\* C11 (amended): as above, but a text containing several composites is
\* graded by the first of 1x, x2, 12 it contains; the verdict is the 1X2
\* rule's, reached after the totals and BTTS rules gave none.
C11_X12 ==
    \A c \in X12Cases :
        (g_pick = c.text /\ g_pc \notin {"over", "under", "btts", "x12"}) =>
            /\ g_pc = "done"
            /\ g_skipped = <<"over", "under", "btts">>
            /\ c.single # "none" =>
                  g_result = (IF ActualOfScore = c.single THEN "W" ELSE "L")
            /\ c.single = "none" =>
                  g_result = (IF ActualOfScore \in PairOf(FirstComposite(c.composites))
                              THEN "W" ELSE "L")

\* C11 witness: "1X2", which contains 1x and x2, was graded a loss at an away win
C11_1X2AwayWin ==
    /\ g_pick = txt_1x2
    /\ g_pc = "done"
    /\ g_home < g_away
    /\ g_result = "L"

\* home-side handicap texts with the handicap they state, num / den
HandicapCases == {
    [text |-> txt_ah_home_1,       num |-> -1, den |-> 1],
    [text |-> txt_home_0_5_ah,     num |-> -1, den |-> 2],
    [text |-> txt_home_0_ah,       num |-> 0,  den |-> 1],
    [text |-> txt_home_handicap_3, num |-> -3, den |-> 1]
  }

\* C12: a text with "handicap" or "ah", "home" or "1" and a numeric handicap h
\* is graded on the home score adjusted by h: W when the adjusted home score
\* exceeds the away score, P when they are equal, L otherwise.
C12_HandicapApplied ==
    \A c \in HandicapCases :
        (g_pick = c.text /\ g_pc = "done") =>
            LET adj_home == g_home * c.den + c.num
                away     == g_away * c.den
            IN  g_result = (IF adj_home > away THEN "W"
                            ELSE IF adj_home = away THEN "P" ELSE "L")

\* C14: the pick "Uavgjort" (the analyzer's label of the draw) is graded W
\* when the home and away scores are equal and L when they differ.
C14_UavgjortIsDraw ==
    (g_pick = txt_uavgjort /\ g_pc = "done") =>
        g_result = (IF g_home = g_away THEN "W" ELSE "L")

\* texts that no rule matches: no totals keyword, no BTTS marker, none of
\* 1, x, 2, no handicap keyword
NoRuleTexts == {txt_uavgjort, txt_arsenal_vinner, txt_mainz_05_vinner, txt_draw,
                txt_empty}

\* C13: for a pick text that no rule matches determine_result returns P, and
\* check_pending_results records resultat P in the row and appends a PUSH
\* entry that repeats the balance.
C13_FallbackPush ==
    \A p \in Procs :
        l_row[p].pick \in NoRuleTexts =>
            /\ pc[p] \in {"cpr_update", "apply_read", "apply_insert", "cpr_telegram"} =>
                  l_wlp[p] = "P"
            /\ pc[p] \in {"apply_read", "apply_insert", "cpr_telegram"} =>
                  /\ dagens_kamp[l_row[p].id].resultat = "P"
                  /\ dagens_kamp[l_row[p].id].home_score = g_home
                  /\ dagens_kamp[l_row[p].id].away_score = g_away
            /\ pc[p] = "cpr_telegram" =>
                  /\ l_result[p].kind = "P"
                  /\ Latest(bankroll).change_reason = "PUSH"
                  /\ Latest(bankroll).dagens_kamp_id = l_row[p].id
                  /\ Latest(bankroll).change_amount = 0
                  /\ Latest(bankroll).amount = get_current_bankroll(Earlier(bankroll))
                  /\ get_current_bankroll(bankroll) = l_result[p].before

\* C13 witness: "Arsenal vinner" at 2-0 was settled as a push on a balance of
\* 200.00
C13_HomeWinPushed ==
    \E p \in Procs :
        /\ l_row[p].pick = txt_arsenal_vinner
        /\ g_home = 2
        /\ g_away = 0
        /\ pc[p] = "cpr_telegram"
        /\ l_result[p].kind = "P"
        /\ l_result[p].after = 20000
        /\ Len(bankroll) = 3

(***************************************************************************)
(* Properties of the analysis                                              *)
(***************************************************************************)

\* a match of the feed that is complete and eligible at time t: a kickoff that
\* parses and lies 6 to 96 hours ahead, an h2h quote, no odds of zero
Usable(m, t) ==
    /\ m.commence_time.form = "iso"
    /\ 12 <= m.commence_time.at - t
    /\ m.commence_time.at - t <= 192
    /\ m.h2h # <<>>
    /\ 0 \notin {m.h2h[1], m.h2h[2], m.h2h[3]}

\* the usable matches of the feed, as <<league, position>>
UsableMatches(feed, t) ==
    {lp \in (DOMAIN feed) \X (1..(MaxFeed + MaxRanked)) :
        /\ feed[lp[1]].outcome = "ok"
        /\ lp[2] \in DOMAIN feed[lp[1]].matches
        /\ Usable(feed[lp[1]].matches[lp[2]], t)}

\* the requests are over and all_matches is complete
LeaguesDone == a_pc \in {"select", "returned", "done"}

\* C15: when no match of the feed yields a candidate (every request fails,
\* returns nothing, or returns only matches that are not eligible),
\* analyze_dagens_kamp returns the error result with matches_analyzed = 0, and
\* no step of analyze_and_store changes the table dagens_kamp.
C15_NoCandidates ==
    [][UsableMatches(a_feed, now) = {} =>
          /\ dagens_kamp' = dagens_kamp
          /\ a_pc' \in {"returned", "done"} =>
                /\ a_result'.status = "error"
                /\ a_result'.error = "Ingen kamper funnet"
                /\ a_result'.matches_analyzed = 0
                /\ a_result'.match = <<>>]_vars

\* C15 witness: the first request raised, the second returned one match that
\* kicks off too late; analyze_and_store has returned the error and the row
\* stored earlier in the day is as it was
C15_ErrorReturned ==
    /\ a_feed[1].outcome = "raised"
    /\ a_feed[2].outcome = "ok"
    /\ Len(a_feed[2].matches) = 1
    /\ a_feed[2].matches[1].commence_time.at - now > 192
    /\ a_pc = "done"
    /\ a_result.status = "error"
    /\ a_result.matches_analyzed = 0
    /\ dagens_kamp = <<RowOfToday>>

\* C16: a match with missing or malformed data (no h2h quote, a kickoff that
\* is missing or does not parse, odds of zero) is the only one left out:
\* every usable match of the feed, those behind it in the same response
\* included, is among the candidates once the requests are over.
C16_OnlyMalformedLeftOut ==
    LeaguesDone =>
        \A lp \in UsableMatches(a_feed, now) :
            \E k \in DOMAIN all_matches :
                all_matches[k].id = a_feed[lp[1]].matches[lp[2]].id

\* the place of a candidate in the order of discovery: its league in
\* TOP5_LEAGUES, then its position in the league's response
DiscoveryRank(match_data) ==
    LET league == CHOOSE l \in DOMAIN TOP5_LEAGUES : TOP5_LEAGUES[l] = match_data.league_key
        position == CHOOSE i \in DOMAIN a_feed[league].matches :
                        a_feed[league].matches[i].id = match_data.id
    IN  10 * league + position

\* x comes before y in the ranking: the higher score, and among equal scores
\* the one discovered first
RankedBefore(x, y) ==
    \/ x.selection_score > y.selection_score
    \/ /\ x.selection_score = y.selection_score
       /\ DiscoveryRank(x) < DiscoveryRank(y)

\* C17: the match returned as the Pick has the maximum selection score of all
\* candidates and is, among the candidates of that score, the one discovered
\* first (league order, then feed order); top_alternatives holds the next
\* candidates of that ranking, three of them or all there are.
C17_BestAndAlternates ==
    (a_pc \in {"returned", "done"} /\ a_result.status = "ok") =>
        LET candidates == {all_matches[k] : k \in DOMAIN all_matches}
            ranking == a_result.match \o a_result.top_alternatives
            ranked == {ranking[i] : i \in DOMAIN ranking}
        IN  /\ Len(a_result.match) = 1
            /\ a_result.matches_analyzed = Cardinality(candidates)
            /\ ranked \subseteq candidates
            /\ \A c \in candidates :
                  /\ c.selection_score <= a_result.match[1].selection_score
                  /\ c.selection_score = a_result.match[1].selection_score =>
                        DiscoveryRank(a_result.match[1]) <= DiscoveryRank(c)
            /\ Len(a_result.top_alternatives) = Min2(3, Cardinality(candidates) - 1)
            /\ \A i, j \in DOMAIN ranking : i < j => RankedBefore(ranking[i], ranking[j])
            /\ \A c \in candidates \ ranked :
                  \A i \in DOMAIN ranking : RankedBefore(ranking[i], c)

\* C17 witness: five candidates; the Pick is the second match of the first
\* league although the first match of the second league has the same score,
\* and the three alternates leave one candidate out
C17_TieKeepsFirstDiscovered ==
    /\ a_pc = "done"
    /\ a_result.status = "ok"
    /\ Len(all_matches) = 5
    /\ a_result.match[1].id = "12"
    /\ \E c \in {all_matches[k] : k \in DOMAIN all_matches} :
          /\ c.id = "21"
          /\ c.selection_score = a_result.match[1].selection_score
    /\ Len(a_result.top_alternatives) = 3

\* EV values (hundredths of a point) at which the score is compared
EvValues == {-500, -100, 0, 1, 250, 2797}

\* the score of the candidate had its best_ev been ev, all else the same
ScoreAtEv(match_data, ev) ==
    score_match_for_selection([match_data EXCEPT !.best_ev = ev])

\* C18 as stated: for any two EV values e1 < e2 and the same confidence,
\* bookmaker count, hours to kickoff and probabilities the score at e2 exceeds
\* the score at e1 by exactly 3 * (e2 - e1).
C18_ThreePerPoint ==
    \A k \in DOMAIN all_matches : \A e1, e2 \in EvValues :
        e1 < e2 =>
            ScoreAtEv(all_matches[k], e2) - ScoreAtEv(all_matches[k], e1) = 3 * (e2 - e1)

\* C18: for two EV values 0 <= e1 < e2 and the same confidence, bookmaker
\* count, hours to kickoff and probabilities the score at e2 exceeds the score
\* at e1 by 3 * (e2 - e1); at an EV below 0 the score is what it is at 0.
C18_ThreePerPositivePoint ==
    \A k \in DOMAIN all_matches : \A e1, e2 \in EvValues :
        /\ (0 <= e1 /\ e1 < e2) =>
              ScoreAtEv(all_matches[k], e2) - ScoreAtEv(all_matches[k], e1) = 3 * (e2 - e1)
        /\ e1 < 0 => ScoreAtEv(all_matches[k], e1) = ScoreAtEv(all_matches[k], 0)
        /\ all_matches[k].selection_score = ScoreAtEv(all_matches[k], all_matches[k].best_ev)

\* C18 witness: a candidate with an EV of 27.97 scores 83.91 more than it
\* would with an EV of 0
C18_ScoredWithEv ==
    \E k \in DOMAIN all_matches :
        /\ all_matches[k].best_ev = 2797
        /\ all_matches[k].selection_score - ScoreAtEv(all_matches[k], 0) = 8391

\* the outcomes checked for a candidate: 1 home, 2 draw, 3 away, and 4 Over
\* 2.5 when there are totals odds
Checked(match_data) == IF match_data.totals_odds = 0 THEN 1..3 ELSE 1..4

\* label, odds and market of the outcomes
OutcomeOf(match_data, i) ==
    IF i = 1 THEN [label |-> match_data.home_team \o txt_vinner,
                   odds |-> match_data.home_odds, market |-> "1X2"]
    ELSE IF i = 2 THEN [label |-> txt_uavgjort, odds |-> match_data.draw_odds,
                        market |-> "1X2"]
    ELSE IF i = 3 THEN [label |-> match_data.away_team \o txt_vinner,
                        odds |-> match_data.away_odds, market |-> "1X2"]
    ELSE [label |-> txt_over_2_5_mal, odds |-> match_data.totals_odds,
          market |-> "Totals"]

\* C19: the EVs of a candidate are calculate_ev of the probability and the
\* odds of home, draw, away and, with totals odds, Over 2.5; if one of them is
\* positive, best_ev is the highest, and best_pick, best_odds and best_market
\* are label, odds and market of the first outcome (home, draw, away, over)
\* that has it.
C19_BestEv ==
    \A k \in DOMAIN all_matches :
        LET md == all_matches[k]
            positive == {i \in Checked(md) : md.evs[i] > 0}
        IN  /\ md.evs[1] \in calculate_ev(md.true_probs.home, md.home_odds)
            /\ md.evs[2] \in calculate_ev(md.true_probs.draw, md.draw_odds)
            /\ md.evs[3] \in calculate_ev(md.true_probs.away, md.away_odds)
            /\ md.totals_odds # 0 =>
                  md.evs[4] \in calculate_ev(md.over25_prob, md.totals_odds)
            /\ positive # {} =>
                  LET first == CHOOSE i \in positive :
                                  /\ \A j \in positive : md.evs[j] <= md.evs[i]
                                  /\ \A j \in positive : md.evs[j] = md.evs[i] => i <= j
                  IN  /\ md.best_ev = md.evs[first]
                      /\ md.best_pick = OutcomeOf(md, first).label
                      /\ md.best_odds = OutcomeOf(md, first).odds
                      /\ md.best_market = OutcomeOf(md, first).market

\* C19 witness: at h2h odds of 3.00, 4.00, 4.00 home and draw both have an EV
\* of 20.00, above Over 2.5 at 1.90, and the home win is the pick
C19_TieKeepsHome ==
    \E k \in DOMAIN all_matches :
        /\ all_matches[k].evs[1] = 2000
        /\ all_matches[k].evs[2] = 2000
        /\ all_matches[k].totals_odds = 190
        /\ all_matches[k].evs[4] < 2000
        /\ all_matches[k].best_pick = txt_arsenal_vinner
        /\ all_matches[k].best_odds = 300
        /\ all_matches[k].best_market = "1X2"

\* C20: for odds all above 1 the probabilities remove_vig returns sum to 1
\* (they are multiples of 0.0001, so a sum within 1e-6 of 1 is 1), each lies
\* in [0, 1], and vig is at least 0 when the raw inverse odds sum to at
\* least 1.
C20_ProbabilitiesSumToOne ==
    \A k \in DOMAIN all_matches :
        LET md == all_matches[k]
            raw_total == md.draw_odds * md.away_odds + md.home_odds * md.away_odds
                         + md.home_odds * md.draw_odds
        IN  (md.home_odds > 100 /\ md.draw_odds > 100 /\ md.away_odds > 100) =>
                /\ md.true_probs.home + md.true_probs.draw + md.true_probs.away = 10000
                /\ \A x \in {md.true_probs.home, md.true_probs.draw, md.true_probs.away} :
                      0 <= x /\ x <= 10000
                /\ 100 * raw_total >= md.home_odds * md.draw_odds * md.away_odds =>
                      md.true_probs.vig >= 0

(***************************************************************************)
(* The labels of the analysis, graded                                      *)
(***************************************************************************)

\* C27: a label the analysis emits is graded on the market it names:
\* "Over 2.5 mål" is W when more than 2.5 goals were scored and L otherwise,
\* "Arsenal vinner" (the home side) is W exactly when home > away, and
\* "Auxerre vinner" (the away side) is W exactly when away > home.
C27_GradedOnNamedMarket ==
    g_pc = "done" =>
        /\ g_pick = txt_over_2_5_mal =>
              g_result = IF 10 * (g_home + g_away) > 25 THEN "W" ELSE "L"
        /\ g_pick = txt_arsenal_vinner => (g_result = "W" <=> g_home > g_away)
        /\ g_pick = txt_auxerre_vinner => (g_result = "W" <=> g_away > g_home)

\* C29: determine_result is total: whatever the text and the scores, it
\* never raises; until it returns it is at the rule after the ones that gave
\* no verdict, of which there are at most five, so that it returns after at
\* most six rules; and what it returns is exactly one of W, L and P.
C29_Total ==
    /\ g_pc # "raised"
    /\ g_pc = "done" => g_result \in Verdicts
    /\ g_pc # "done" =>
          /\ g_result = "none"
          /\ Len(g_skipped) < Len(Rules)
          /\ g_pc = Rules[Len(g_skipped) + 1]

\* C29 witness: "Handicap home -", whose split()[0] raises IndexError inside
\* the handicap rule, has been graded P by the fallback
C29_HandicapWithoutNumberGraded ==
    /\ g_pick = txt_handicap_home
    /\ g_pc = "done"
    /\ g_result = "P"
    /\ g_skipped = <<"over", "under", "btts", "x12", "handicap">>

\* C28: the row analyze_and_store has written for the selected match has a
\* non-empty pick, a named market, odds above 1.00 and a positive EV: a
\* candidate none of whose markets has positive EV is never the day's pick.
C28_PersistedPickHasValue ==
    \A i \in RowsOfDate(dagens_kamp, Today(now)) :
        (/\ a_pc = "done"
         /\ a_result.error = ""
         /\ dagens_kamp[i].match = a_result.match[1].id) =>
            /\ dagens_kamp[i].pick # <<>>
            /\ dagens_kamp[i].odds > 100
            /\ a_result.match[1].best_market # ""
            /\ a_result.match[1].best_ev > 0

\* the probability the model gives the outcome the pick names
PickedProb(best_match) ==
    IF best_match.best_pick = best_match.home_team \o txt_vinner
    THEN best_match.true_probs.home
    ELSE IF best_match.best_pick = txt_uavgjort THEN best_match.true_probs.draw
    ELSE IF best_match.best_pick = best_match.away_team \o txt_vinner
    THEN best_match.true_probs.away
    ELSE best_match.over25_prob

\* C30: the Kelly stake returned with the selected pick is the one computed
\* from the probability of the picked outcome (home, draw, away or over 2.5)
\* and the pick's odds, and lies between 0 and 5 percent.
C30_KellyOfPickedOutcome ==
    (a_result.status = "ok" /\ a_result.match[1].best_pick # <<>>) =>
        /\ a_result.kelly_stake_pct \in
              kelly_stake(PickedProb(a_result.match[1]), a_result.match[1].best_odds)
        /\ a_result.kelly_stake_pct \in 0..500

(***************************************************************************)
(* implied_over25 and implied_btts on their own, over probabilities that   *)
(* need not sum to 1                                                       *)
(***************************************************************************)

\* the probabilities tried, in ten-thousandths
Probs == {0, 1, 2059, 3333, 5000, 5882, 8600, 9999, 10000}

\* nothing else is running
Quiet ==
    /\ SysInit
    /\ GradeOff

EstimateInit ==
    /\ est \in {[home_prob |-> h, draw_prob |-> d, away_prob |-> a, over25 |-> -1,
                 btts |-> -1] : h \in Probs, d \in Probs, a \in Probs}
    /\ Quiet
    /\ SimulationOff
    /\ SchedulerOff

\* over25 = implied_over25(home_prob, draw_prob, away_prob)
EstimateOver25 ==
    /\ est.over25 = -1
    /\ \E v \in implied_over25(est.home_prob, est.draw_prob, est.away_prob) :
          est' = [est EXCEPT !.over25 = v]
    /\ UNCHANGED <<gvars, svars, avars, mvars, bvars>>

\* btts = implied_btts(home_prob, draw_prob, away_prob)
EstimateBtts ==
    /\ est.btts = -1
    /\ \E v \in implied_btts(est.home_prob, est.draw_prob, est.away_prob) :
          est' = [est EXCEPT !.btts = v]
    /\ UNCHANGED <<gvars, svars, avars, mvars, bvars>>

EstimateNext ==
    \/ EstimateOver25
    \/ EstimateBtts

EstimateSpec == EstimateInit /\ [][EstimateNext]_vars

\* C22: for probabilities between 0 and 1, implied_over25 returns a value
\* between 0.28 and 0.88 and implied_btts a value between 0.25 and 0.82.
C22_WithinClamp ==
    /\ est.over25 # -1 => (2800 <= est.over25 /\ est.over25 <= 8800)
    /\ est.btts # -1 => (2500 <= est.btts /\ est.btts <= 8200)

\* C22 witness: with no draw and both sides certain to win the base of
\* implied_over25 is 1.19 and the base of implied_btts 0.65: the first is
\* clamped to 0.88
C22_Over25Clamped ==
    /\ est.home_prob = 10000
    /\ est.draw_prob = 0
    /\ est.away_prob = 10000
    /\ est.over25 = 8800
    /\ est.btts = 6500

(***************************************************************************)
(* Settlement and the ledger                                               *)
(***************************************************************************)

\* the ledger has an entry for pick dk_id
HasLedgerEntry(dk_id) ==
    \E k \in DOMAIN bankroll : bankroll[k].dagens_kamp_id = dk_id

\* a result check that has selected pick dk_id has not yet done its ledger write
CheckInFlight(dk_id) ==
    \E p \in Procs :
        /\ pc[p] \in {"cpr_fetch", "cpr_update", "apply_read", "apply_insert"}
        /\ l_row[p].id = dk_id

\* C26: settlement is all-or-nothing: a pick whose result is recorded as W, L
\* or P has its ledger entry, or a result check that will still write it is
\* under way; a failed ledger write does not leave the pick settled without
\* its entry.
C26_SettledHasLedgerEntry ==
    \A i \in DOMAIN dagens_kamp :
        dagens_kamp[i].resultat \in Verdicts =>
            HasLedgerEntry(dagens_kamp[i].id) \/ CheckInFlight(dagens_kamp[i].id)

\* a result check takes up a pick only while its resultat is NULL: a pick left
\* settled without its entry is not selected again
SettledNotSelectedAgain ==
    [][\A p \in Procs :
          (pc[p] = "idle" /\ pc'[p] = "cpr_fetch") => l_row'[p].resultat = "NULL"]_vars

(***************************************************************************)
(* The scheduler's result checks, one every 30 minutes, after the analysis *)
(* of 06:00 on day 0 has stored its pick.  No request fails and the        *)
(* results providers report the final score of a finished match.           *)
(***************************************************************************)

\* the last check is the one at this time (06:00 on day 1)
LastPoll == 60

PollInit ==
    /\ now = 12
    /\ \E m \in Eligible(12) :
          dagens_kamp = InsertDagensKamp(<<>>, Today(12),
                            [match |-> m.match, pick |-> m.pick, odds |-> m.odds,
                             commence_time |-> m.kickoff])
    /\ bankroll = <<SeedEntry>>
    /\ pc = [p \in Procs |-> "idle"]
    /\ l_row = [p \in Procs |-> NoRow]
    /\ l_wlp = [p \in Procs |-> "none"]
    /\ l_current = [p \in Procs |-> 0]
    /\ l_result = [p \in Procs |-> NoResult]
    /\ l_analysis = [p \in Procs |-> NoAnalysis]
    /\ AnalysisOff
    /\ GradeOff
    /\ RestOff

\* background_scheduler: await asyncio.sleep(30 * 60), then (outside the hours
\* of the analysis and the summary) await check_pending_results(), here up to
\* its first request to a results provider: the SELECT of today's pending row
\* and the kickoff test
PollCheck ==
    /\ pc[1] = "idle"
    /\ now < LastPoll
    /\ now' = now + 1
    /\ LET due == {i \in PendingRows(dagens_kamp, Today(now')) :
                      now' >= dagens_kamp[i].commence_time + 5}
       IN  IF due # {}
           THEN /\ \E i \in due : l_row' = [l_row EXCEPT ![1] = dagens_kamp[i]]
                /\ pc' = [pc EXCEPT ![1] = "cpr_fetch"]
           ELSE UNCHANGED <<pc, l_row>>
    /\ UNCHANGED <<dagens_kamp, bankroll, l_wlp, l_current, l_result, l_analysis>>
    /\ UNCHANGED <<gvars, avars, xvars>>

PollNext ==
    \/ PollCheck
    \/ CprFetchFound(1)
    \/ CprUpdate(1)
    \/ ApplyRead(1)
    \/ ApplyWin(1)
    \/ ApplyLoss(1)
    \/ ApplyPush(1)
    \/ CprTelegram(1)

PollSpec == PollInit /\ [][PollNext]_vars

\* C25: with the scheduler checking every 30 minutes, a stored pick whose
\* match has finished and whose final score the providers report is settled,
\* result recorded and ledger entry appended, by the check that follows the
\* end of the match, also when the match is played on a later day than the
\* pick was stored: once that check has returned, the pick is not pending.
C25_FinishedPickSettled ==
    \A i \in DOMAIN dagens_kamp :
        (pc[1] = "idle" /\ now >= dagens_kamp[i].commence_time + 5) =>
            /\ dagens_kamp[i].resultat \in Verdicts
            /\ HasLedgerEntry(dagens_kamp[i].id)

\* a pick whose match ended on the day it was stored is settled by the check
\* after the end of the match
SameDayPickSettled ==
    \A i \in DOMAIN dagens_kamp :
        (/\ pc[1] = "idle"
         /\ now >= dagens_kamp[i].commence_time + 5
         /\ Today(dagens_kamp[i].commence_time + 5) = dagens_kamp[i].dato) =>
            /\ dagens_kamp[i].resultat \in Verdicts
            /\ HasLedgerEntry(dagens_kamp[i].id)

(***************************************************************************)
(* background_scheduler: the loop that wakes, runs the 06:00 analysis,     *)
(* checks the pending results, sends the 23:00 summary and sleeps 30       *)
(* minutes.  The clock counts minutes of CET (now_utc + 1 hour); the       *)
(* requests of one pass take up to MaxBody minutes each.                   *)
(***************************************************************************)

\* the days the scheduler is followed over
MaxDays == 1

\* the longest a call awaited in the loop takes, in minutes
MaxBody == 1

\* the minute of day 0 at which the application starts the scheduler, all of
\* them before 06:00
StartTimes == 0 .. 29

\* now_cet.date(), now_cet.hour, now_cet.minute
DateOf(t) == t \div 1440

HourOf(t) == (t % 1440) \div 60

MinuteOf(t) == t % 60

\* how analyze_and_store and post_dagens_kamp_telegram_internal end: posted,
\* "error" in analysis, analyze_and_store raised, the post raised
AnalysisOutcomes == {"posted", "error", "raised", "post_raised"}

\* how send_daily_summary_internal ends
SummaryOutcomes == {"sent", "raised"}

SchedulerInit ==
    /\ clock \in StartTimes
    /\ sched = [pc |-> "wake", last_analysis_date |-> -1, last_summary_date |-> -1,
                today |-> 0, hour |-> 0, minute |-> 0]
    /\ ran = NoRuns
    /\ Quiet
    /\ SimulationOff
    /\ EstimateOff

\* now_cet = now_utc + timedelta(hours=1); today, hour, minute; if hour == 6 and
\* minute < 30 and last_analysis_date != today: ...
SchedulerWake ==
    /\ sched.pc = "wake"
    /\ sched' = [sched EXCEPT
                    !.today = DateOf(clock), !.hour = HourOf(clock),
                    !.minute = MinuteOf(clock),
                    !.pc = IF /\ HourOf(clock) = 6
                              /\ MinuteOf(clock) < 30
                              /\ sched.last_analysis_date # DateOf(clock)
                           THEN "analysis" ELSE "check"]
    /\ UNCHANGED <<clock, ran>>
    /\ UNCHANGED <<gvars, svars, avars, mvars, est>>

\* analysis = await analyze_and_store(); if "error" not in analysis: await
\* post_dagens_kamp_telegram_internal(); last_analysis_date = today; an
\* exception of either is printed
SchedulerAnalysis ==
    /\ sched.pc = "analysis"
    /\ \E outcome \in AnalysisOutcomes :
          sched' = [sched EXCEPT
                       !.last_analysis_date =
                           IF outcome = "posted" THEN sched.today ELSE @,
                       !.pc = "check"]
    /\ \E d \in 0 .. MaxBody : clock' = clock + d
    /\ ran' = [ran EXCEPT !.analysis = Append(@, clock \div 60)]
    /\ UNCHANGED <<gvars, svars, avars, mvars, est>>

\* await check_pending_results(); if hour == 23 and minute < 30 and
\* last_summary_date != today: ... (hour and minute are those read on waking)
SchedulerCheck ==
    /\ sched.pc = "check"
    /\ sched' = [sched EXCEPT
                    !.pc = IF /\ sched.hour = 23
                              /\ sched.minute < 30
                              /\ sched.last_summary_date # sched.today
                           THEN "summary" ELSE "sleep"]
    /\ \E d \in 0 .. MaxBody : clock' = clock + d
    /\ UNCHANGED ran
    /\ UNCHANGED <<gvars, svars, avars, mvars, est>>

\* await send_daily_summary_internal(); last_summary_date = today; an exception
\* is printed
SchedulerSummary ==
    /\ sched.pc = "summary"
    /\ \E outcome \in SummaryOutcomes :
          sched' = [sched EXCEPT
                       !.last_summary_date =
                           IF outcome = "sent" THEN sched.today ELSE @,
                       !.pc = "sleep"]
    /\ \E d \in 0 .. MaxBody : clock' = clock + d
    /\ ran' = [ran EXCEPT !.summary = Append(@, clock \div 60)]
    /\ UNCHANGED <<gvars, svars, avars, mvars, est>>

\* await asyncio.sleep(30 * 60)
SchedulerSleep ==
    /\ sched.pc = "sleep"
    /\ clock + 30 <= 1440 * MaxDays
    /\ clock' = clock + 30
    /\ sched' = [sched EXCEPT !.pc = "wake"]
    /\ UNCHANGED ran
    /\ UNCHANGED <<gvars, svars, avars, mvars, est>>

SchedulerNext ==
    \/ SchedulerWake
    \/ SchedulerAnalysis
    \/ SchedulerCheck
    \/ SchedulerSummary
    \/ SchedulerSleep

SchedulerSpec == SchedulerInit /\ [][SchedulerNext]_vars

\* the runs recorded in `hours` that began on day d
RunsOn(hours, d) == {k \in DOMAIN hours : hours[k] \div 24 = d}

\* C24: on every day the scheduler runs the analysis in the 06:00 hour and
\* sends the summary in the 23:00 hour, each exactly once: when the clock has
\* passed 06:30 (23:30) of a day, exactly one analysis (summary) has been run
\* that day, in that hour; no window is skipped by the polling loop and no
\* run is repeated.
C24_OncePerDay ==
    \A d \in 0 .. (MaxDays - 1) :
        /\ clock >= 1440 * d + 390 =>
              /\ Cardinality(RunsOn(ran.analysis, d)) = 1
              /\ \A k \in RunsOn(ran.analysis, d) : ran.analysis[k] % 24 = 6
        /\ clock >= 1440 * d + 1410 =>
              /\ Cardinality(RunsOn(ran.summary, d)) = 1
              /\ \A k \in RunsOn(ran.summary, d) : ran.summary[k] % 24 = 23

\* no analysis and no summary is run twice on one day, and every run begins
\* in its hour
NeverTwiceADay ==
    \A d \in 0 .. (MaxDays - 1) :
        /\ Cardinality(RunsOn(ran.analysis, d)) <= 1
        /\ Cardinality(RunsOn(ran.summary, d)) <= 1
        /\ \A k \in DOMAIN ran.analysis : ran.analysis[k] % 24 = 6
        /\ \A k \in DOMAIN ran.summary : ran.summary[k] % 24 = 23

(***************************************************************************)
(* monte_carlo_match, called twice with the same arguments.  Before each   *)
(* call the generator of module random is put in the state of the seed;    *)
(* the program itself never seeds it, so that the state at a call is any   *)
(* state, as the seed is here.                                             *)
(***************************************************************************)

\* the states of the generator
RngStates == 0 .. 63

\* random.random(): the state of the generator after the call; the value
\* returned is that state / 64, in [0, 1)
NextRng(s) == (5 * s + 3) % 64

\* home_xg = max(0.3, min(3.5, 1.2 + (home_prob - 0.33) * 2.5)), in 1/100000
home_xg(home_prob) == Max2(30000, Min2(350000, 120000 + (home_prob - 3300) * 25))

\* away_xg = max(0.3, min(3.0, 0.9 + (away_prob - 0.33) * 2.5)), in 1/100000
away_xg(away_prob) == Max2(30000, Min2(300000, 90000 + (away_prob - 3300) * 25))

\* the probabilities the simulation is called with
SimProbs == {<<5882, 2059, 2059>>, <<3333, 3333, 3333>>, <<8000, 1300, 700>>}

\* the numbers of trials the simulation is called with
Trials == {1, 2, 3, 100}

\* L = math.exp(-lam) in millionths, rounded down, at the values of lam that
\* home_xg and away_xg take over SimProbs
exp_neg(lam) ==
    CASE lam = 184550 -> 157946
      [] lam = 58975  -> 554465
      [] lam = 120825 -> 298719
      [] lam = 90825  -> 403229
      [] lam = 237500 -> 93014
      [] lam = 30000  -> 740818

\* while p > L: k += 1; p *= random.random()  (p in millionths)
RECURSIVE PoissonLoop(_, _, _, _)
PoissonLoop(k, p, L, s) ==
    IF p > L
    THEN PoissonLoop(k + 1, (p * NextRng(s)) \div 64, L, NextRng(s))
    ELSE [goals |-> k - 1, rng |-> s]

\* _poisson_sample(lam): L = math.exp(-lam); k = 0; p = 1.0; the loop;
\* return k - 1; with the state it leaves the generator in
poisson_sample(lam, s) == PoissonLoop(0, 1000000, exp_neg(lam), s)

\* d[key] = d.get(key, 0) + 1 on a dict kept as the sequence of its items in
\* insertion order
Bump(d, key) ==
    IF \E k \in DOMAIN d : d[k].key = key
    THEN [k \in DOMAIN d |->
            IF d[k].key = key THEN [d[k] EXCEPT !.count = @ + 1] ELSE d[k]]
    ELSE Append(d, [key |-> key, count |-> 1])

\* score_key = f"{home_goals}-{away_goals}"
score_key(home_goals, away_goals) ==
    ToString(home_goals) \o "-" \o ToString(away_goals)

\* a histogram key that does not gather the totals of 6 and more
KeyOfTotal(g) == ToString(g)

\* k = str(min(g, 6))
HistKey(g) == ToString(Min2(g, 6))

\* goal_hist = {}; for g in goal_distributions: k = str(min(g, 6));
\* goal_hist[k] = goal_hist.get(k, 0) + 1: the keys in the order of their
\* first trial, each with the number of its trials
goal_hist(goal_distributions) ==
    LET firsts == {t \in DOMAIN goal_distributions :
                      \A u \in 1 .. (t - 1) :
                          HistKey(goal_distributions[u]) # HistKey(goal_distributions[t])}
        nth(k) == CHOOSE t \in firsts : Cardinality({u \in firsts : u <= t}) = k
    IN  [k \in 1 .. Cardinality(firsts) |->
            [key |-> HistKey(goal_distributions[nth(k)]),
             count |-> Cardinality({u \in DOMAIN goal_distributions :
                           HistKey(goal_distributions[u]) =
                               HistKey(goal_distributions[nth(k)])})]]

\* sorted(..., key=lambda x: x[1], reverse=True): by count, the larger first,
\* items of equal count in the order of the dict
SortByCount(d) ==
    LET place(k) == 1 + Cardinality({j \in DOMAIN d :
                           \/ d[j].count > d[k].count
                           \/ d[j].count = d[k].count /\ j < k})
    IN  [p \in 1 .. Len(d) |-> d[CHOOSE k \in DOMAIN d : place(k) = p]]

\* top_scores = sorted(score_counts.items(), ...)[:5]
top_scores(score_counts) ==
    SubSeq(SortByCount(score_counts), 1, Min2(5, Len(score_counts)))

\* round(count / n_simulations * 100, 1), in tenths of a percent
Pct(count, n_simulations) == Round(1000 * count, n_simulations, 0)

\* the sequences that take their k-th element from the k-th set
RECURSIVE SeqChoices(_)
SeqChoices(sets) ==
    IF sets = <<>> THEN {<<>>}
    ELSE {<<x>> \o rest : x \in Head(sets), rest \in SeqChoices(Tail(sets))}

\* locals that keep their values from the call before
ContinuedSimulation(previous) == [previous EXCEPT !.pc = "loop", !.i = 0]

\* results = {"home": 0, "draw": 0, "away": 0}; goal_distributions = [];
\* over25_count = 0; btts_count = 0; score_counts = {}
NewSimulation(previous) ==
    [pc |-> "loop", i |-> 0, results |-> [home |-> 0, draw |-> 0, away |-> 0],
     over25_count |-> 0, btts_count |-> 0, score_counts |-> <<>>,
     goal_distributions |-> <<>>]

\* the dict monte_carlo_match returns (without home_xg and away_xg)
Results(locals, n_simulations) ==
    LET top == top_scores(locals.score_counts)
    IN  {[simulations |-> n_simulations,
          home_wins |-> locals.results.home,
          draws |-> locals.results.draw,
          away_wins |-> locals.results.away,
          home_win_pct |-> h, draw_pct |-> d, away_win_pct |-> a,
          over25_pct |-> o, btts_pct |-> b,
          top_scores |-> [k \in DOMAIN top |->
                             [score |-> top[k].key, count |-> top[k].count,
                              pct |-> pcts[k]]],
          goal_histogram |-> goal_hist(locals.goal_distributions)] :
            h \in Pct(locals.results.home, n_simulations),
            d \in Pct(locals.results.draw, n_simulations),
            a \in Pct(locals.results.away, n_simulations),
            o \in Pct(locals.over25_count, n_simulations),
            b \in Pct(locals.btts_count, n_simulations),
            pcts \in SeqChoices([k \in DOMAIN top |-> Pct(top[k].count, n_simulations)])}

\* the calls of monte_carlo_match that are followed
MaxCalls == 2

SimulationInit ==
    /\ \E probs \in SimProbs, n \in Trials, seed \in RngStates :
          mc_args = [home_prob |-> probs[1], draw_prob |-> probs[2],
                     away_prob |-> probs[3], n_simulations |-> n, seed |-> seed]
    /\ mc = NoSimulation
    /\ rng \in RngStates
    /\ sim = <<>>
    /\ Quiet
    /\ EstimateOff
    /\ SchedulerOff

\* random.seed(seed); monte_carlo_match(home_prob, draw_prob, away_prob,
\* n_simulations) up to its loop
MonteCarloCall ==
    /\ mc.pc \in {"off", "returned"}
    /\ Len(sim) < MaxCalls
    /\ rng' = mc_args.seed
    /\ mc' = NewSimulation(mc)
    /\ UNCHANGED <<mc_args, sim>>
    /\ UNCHANGED <<gvars, svars, avars, est, bvars>>

\* one pass of for _ in range(n_simulations)
SimulateTrial ==
    /\ mc.pc = "loop"
    /\ mc.i < mc_args.n_simulations
    /\ LET home == poisson_sample(home_xg(mc_args.home_prob), rng)
           away == poisson_sample(away_xg(mc_args.away_prob), home.rng)
           home_goals == home.goals
           away_goals == away.goals
           total_goals == home_goals + away_goals
       IN  /\ rng' = away.rng
           /\ mc' = [mc EXCEPT
                  !.i = @ + 1,
                  !.results =
                      IF home_goals > away_goals THEN [@ EXCEPT !.home = @ + 1]
                      ELSE IF home_goals = away_goals THEN [@ EXCEPT !.draw = @ + 1]
                      ELSE [@ EXCEPT !.away = @ + 1],
                  !.over25_count = IF 10 * total_goals > 25 THEN @ + 1 ELSE @,
                  !.btts_count = IF home_goals > 0 /\ away_goals > 0 THEN @ + 1 ELSE @,
                  !.score_counts = Bump(@, score_key(home_goals, away_goals)),
                  !.goal_distributions = Append(@, total_goals)]
    /\ UNCHANGED <<mc_args, sim>>
    /\ UNCHANGED <<gvars, svars, avars, est, bvars>>

\* the loop is over: top_scores, goal_hist, return {...}
SimulationReturn ==
    /\ mc.pc = "loop"
    /\ mc.i = mc_args.n_simulations
    /\ \E r \in Results(mc, mc_args.n_simulations) : sim' = Append(sim, r)
    /\ mc' = [mc EXCEPT !.pc = "returned"]
    /\ UNCHANGED <<mc_args, rng>>
    /\ UNCHANGED <<gvars, svars, avars, est, bvars>>

SimulationNext ==
    \/ MonteCarloCall
    \/ SimulateTrial
    \/ SimulationReturn

SimulationSpec == SimulationInit /\ [][SimulationNext]_vars

\* the sum of the counts of a dict
RECURSIVE SumCounts(_)
SumCounts(d) ==
    IF d = <<>> THEN 0 ELSE d[1].count + SumCounts(Tail(d))

\* C21: monte_carlo_match returns home_wins + draws + away_wins = N, a goal
\* histogram whose keys are among '0' to '6', each once, and whose counts sum
\* to N, over-2.5 and BTTS counts of at most N, and for N = 100 outcome
\* percentages that sum to 100.
C21_CountsAddUp ==
    /\ mc.over25_count <= mc.i
    /\ mc.btts_count <= mc.i
    /\ mc.i <= mc_args.n_simulations
    /\ \A c \in DOMAIN sim :
          LET r == sim[c]
              N == mc_args.n_simulations
          IN  /\ r.simulations = N
              /\ r.home_wins + r.draws + r.away_wins = N
              /\ \A k \in DOMAIN r.goal_histogram :
                    /\ r.goal_histogram[k].key \in {ToString(g) : g \in 0 .. 6}
                    /\ r.goal_histogram[k].count >= 1
                    /\ \A j \in DOMAIN r.goal_histogram :
                          r.goal_histogram[j].key = r.goal_histogram[k].key => j = k
              /\ SumCounts(r.goal_histogram) = N
              /\ r.over25_pct <= 1000
              /\ r.btts_pct <= 1000
              /\ N = 100 => r.home_win_pct + r.draw_pct + r.away_win_pct = 1000

\* C21 witness: a simulation of 100 trials has returned with home wins, draws
\* and away wins, and with trials of 6 goals or more under '6'
C21_HundredTrials ==
    \E c \in DOMAIN sim :
        /\ sim[c].simulations = 100
        /\ sim[c].home_wins > 0
        /\ sim[c].draws > 0
        /\ sim[c].away_wins > 0
        /\ \E k \in DOMAIN sim[c].goal_histogram : sim[c].goal_histogram[k].key = "6"
        /\ \E t \in DOMAIN mc.goal_distributions : mc.goal_distributions[t] > 6

====
